---- MODULE Spec2Model ----
(***************************************************************************)
(* goecs: the entity store (View) of src/view.go and the Entity of         *)
(* src/unnamed/part_001, the sparse.Slice of src/unnamed/part_011, the     *)
(* Systems of src/system.go, the Subscriptions of src/listener.go and the  *)
(* World of src/unnamed/part_012, as state machines.                       *)
(*                                                                         *)
(* Spec      every call of the store, on stores of up to MaxID entities    *)
(* SpecLong  AddEntity and Remove only, on stores of up to MaxLongID       *)
(*           entities, far enough for a growth of more than one slot       *)
(* SpecSort  AddEntity, Remove and Sort only                               *)
(* SpecSys   Systems: Register with a priority, and Systems.Update         *)
(* SpecBus   Subscriptions: Subscribe, Signal and Subscriptions.Update     *)
(* SpecWorld World: AddSystem, AddListener, Signal and World.Update        *)
(*                                                                         *)
(* Go indexes slices from 0 and TLA+ sequences from 1: every index the     *)
(* code keeps (lookup values, size used as an index, the iterator cursor)  *)
(* is kept 0-based here and items[i] of the code is v.items[i + 1].        *)
(*                                                                         *)
(* An Update call is one step: the systems and listeners it invokes run    *)
(* inside it, one after the other, each on the world the one before left.  *)
(***************************************************************************)
EXTENDS Integers, Sequences, FiniteSets, TLC

\* ------------------------------------------------------------- bounds --
\* largest capacity handed to NewView
MaxInitCap == 2
\* AddEntity is not called any more once lastID reaches MaxID
MaxID == 3
\* the longer runs of SpecLong stop adding once lastID reaches MaxLongID
MaxLongID == 5

\* Register is not called any more once MaxSystems systems are registered
MaxSystems == 3
\* Subscribe is not called any more once MaxListeners listeners are subscribed
MaxListeners == 2
\* Signal is not called from outside while MaxSignals signals are waiting, nor
\* Update while more than that are
MaxSignals == 2
\* Update is not called any more once the position has reached MaxX
MaxX == 1
\* where World.Clear is called too, AddEntity, AddResource, AddSystem and
\* AddListener are not called any more once they have given out MaxStored ids
MaxStored == 1
\* the values of a component are 0..MaxValue
MaxValue == 1

\* component types (PosType, VelType of the tests)
Types == {"Pos", "Vel"}
\* the less functions handed to Sort: by id ascending, by id descending
LessFns == {"idAsc", "idDesc"}

ErrNil == "nil"
ErrEntityNotFound == "entity not found"

VARIABLES
    view,    \* the View: capacity, grow, items, size, lastID, lookup
    ret,     \* the last call made on the store and what it returned
    created, \* history: the capacity NewView was called with
    issued,  \* history: the ids AddEntity has returned, in call order
    alive,   \* history: ids added with >= 1 component, no Remove(id) or Clear called since
    removed, \* history: ids a Remove call has removed (it returned no error)
    world,   \* the World: its systems, its subscriptions and signals, a position
    wret,    \* the last call made on the world and what it returned
    hist     \* history: the Register and Subscribe calls made, in call order,
             \* and the signals raised that no dispatch pass has taken yet

vars == <<view, ret, created, issued, alive, removed, world, wret, hist>>

storeVars == <<view, ret, created, issued, alive, removed>>

worldVars == <<world, wret, hist>>

\* ------------------------------------------------------------- Entity --
\* a slot of items: a nil pointer, or a pointer to an Entity {id, components}
NilSlot == [nil |-> TRUE, id |-> 0, comps |-> {}]

\* NewEntity: a component list becomes a map keyed by component type, so only
\* the set of types in the list matters for the store
NewEntity(id, data) == [nil |-> FALSE, id |-> id, comps |-> data]

IsEmpty(ent) == Cardinality(ent.comps) = 0

EntityClear(ent) == [ent EXCEPT !.comps = {}, !.id = 0]

Reuse(ent, id, data) == [EntityClear(ent) EXCEPT !.id = id, !.comps = @ \cup data]

\* Entity.Remove, on the types alone: delete(components, ctype)
RemoveType(ent, ctype) == [ent EXCEPT !.comps = @ \ {ctype}]

\* it.Value().Remove(ctype), with the iterator at slot i: the entity is written
\* through the pointer the store holds, and nothing else of the store is
ValueRemove(v, i, ctype) == [v EXCEPT !.items[i + 1] = RemoveType(@, ctype)]

\* a Contains that stops at the first type it finds instead of the first it misses
ContainsAny(ent, types) == types = {} \/ \E t \in types : t \in ent.comps

Contains(ent, types) == \A t \in types : t \in ent.comps

\* ------------------------------------------- Entity, with its values --
\* src/unnamed/part_001. The store above needs only the types an entity holds;
\* here an entity is {id, components}, components being the map from
\* ComponentType to Component, and a Component a value with its Type().
NilComponent == [nil |-> TRUE]

NewComponent(type, value) == [nil |-> FALSE, type |-> type, value |-> value]

\* an Add that leaves a component of the same type in place
EntityAddIfAbsent(ent, component) ==
    IF component.type \in DOMAIN ent.components
    THEN ent
    ELSE [ent EXCEPT !.components =
              [t \in DOMAIN @ \cup {component.type} |->
                  IF t = component.type THEN component ELSE @[t]]]

\* Add: components[component.Type()] = component
EntityAdd(ent, component) ==
    [ent EXCEPT !.components =
        [t \in DOMAIN @ \cup {component.type} |->
            IF t = component.type THEN component ELSE @[t]]]

EntitySet(ent, component) == EntityAdd(ent, component)

\* Get: components[ctype], the zero value of the map for a missing type
EntityGet(ent, ctype) ==
    IF ctype \in DOMAIN ent.components THEN ent.components[ctype] ELSE NilComponent

\* Remove: delete(components, ctype)
EntityRemove(ent, ctype) ==
    [ent EXCEPT !.components = [t \in DOMAIN @ \ {ctype} |-> @[t]]]

RECURSIVE EntityAddAll(_, _, _)
EntityAddAll(ent, components, k) ==
    IF k > Len(components) THEN ent
    ELSE EntityAddAll(EntityAdd(ent, components[k]), components, k + 1)

\* NewEntity, with the values: an empty map, then Add for every component given
NewEntityWith(id, components) ==
    EntityAddAll([id |-> id, components |-> [t \in {} |-> NilComponent]], components, 1)

\* --------------------------------------------------------------- View --
NewView(capacity) ==
    [capacity |-> capacity,
     grow     |-> capacity,
     items    |-> [i \in 1..capacity |-> NilSlot],
     size     |-> 0,
     lastID   |-> 0,
     lookup   |-> <<>>]

\* items[i] of the code (0-based)
Item(v, i) == v.items[i + 1]

\* a Go map read: the zero value for a key that is not in the map
LookupGet(v, id) == IF id \in DOMAIN v.lookup THEN v.lookup[id] ELSE 0

\* a Go map write
LookupPut(lookup, id, i) ==
    [k \in (DOMAIN lookup) \cup {id} |-> IF k = id THEN i ELSE lookup[k]]

\* a growCapacity whose next increment is 50% + 1
growCapacityHalf(v) ==
    [v EXCEPT !.capacity = v.capacity + v.grow,
              !.items = v.items \o [i \in 1..v.grow |-> NilSlot],
              !.grow = ((v.capacity + v.grow) \div 2) + 1]

\* a growCapacity that appends the slots and leaves the capacity as it is
growCapacityUncounted(v) ==
    [v EXCEPT !.items = v.items \o [i \in 1..v.grow |-> NilSlot],
              !.grow = ((v.capacity + v.grow) \div 4) + 1]

growCapacity(v) ==
    [v EXCEPT !.capacity = v.capacity + v.grow,
              !.items = v.items \o [i \in 1..v.grow |-> NilSlot],
              !.grow = ((v.capacity + v.grow) \div 4) + 1]

\* the slots the scan of AddEntity stops at: nil, or an entity with no component
FreeSlots(v) == {i \in 0..(Len(v.items) - 1) : Item(v, i).nil \/ IsEmpty(Item(v, i))}

\* an id read from the counter before it is incremented
NextIDBeforeIncrement(v) == v.lastID

\* an id taken from the number of stored entities instead of the counter
NextIDFromSize(v) == v.size + 1

\* the id AddEntity assigns: v.lastID++
NextID(v) == v.lastID + 1

\* AddEntity: the view afterwards, the id returned, and whether the call
\* panicked with an index out of range at items[v.size] (then nothing is returned)
AddEntity(v, data) ==
    LET id == NextID(v)
        v1 == [v EXCEPT !.lastID = id]
        free == FreeSlots(v1)
    IN  IF free # {}
        THEN LET i == CHOOSE x \in free : \A y \in free : x <= y
                 si == Item(v1, i)
             IN  [view |-> [v1 EXCEPT !.items[i + 1] =
                                          IF si.nil THEN NewEntity(id, data)
                                                    ELSE Reuse(si, id, data),
                                      !.size = v1.size + 1,
                                      !.lookup = LookupPut(v1.lookup, id, i)],
                  id |-> id, slot |-> i, reused |-> ~si.nil, panic |-> FALSE]
        ELSE LET v2 == growCapacity(v1)
             IN  IF v2.size < Len(v2.items)
                 THEN [view |-> [v2 EXCEPT !.items[v2.size + 1] = NewEntity(id, data),
                                           !.lookup = LookupPut(v2.lookup, id, v2.size),
                                           !.size = v2.size + 1],
                       id |-> id, slot |-> v2.size, reused |-> FALSE, panic |-> FALSE]
                 ELSE [view |-> v2, id |-> 0, slot |-> -1, reused |-> FALSE, panic |-> TRUE]

\* find: the first slot holding a non-empty entity with this id
find(v, id) ==
    LET hit == {i \in 0..(Len(v.items) - 1) :
                  /\ ~Item(v, i).nil
                  /\ ~IsEmpty(Item(v, i))
                  /\ Item(v, i).id = id}
    IN  IF hit # {}
        THEN [i |-> CHOOSE x \in hit : \A y \in hit : x <= y, err |-> ErrNil]
        ELSE [i |-> 0, err |-> ErrEntityNotFound]

\* a Remove that trusts the lookup map, as Get does, instead of find
RemoveByLookup(v, id) ==
    IF Len(v.items) = 0
    THEN [view |-> v, err |-> ErrEntityNotFound]
    ELSE [view |-> [v EXCEPT !.items[LookupGet(v, id) + 1] =
                                 IF @.nil THEN @ ELSE EntityClear(@),
                             !.size = v.size - 1],
          err |-> ErrNil]

\* a Remove that moves the last entity stored into the slot it frees
RemoveSwap(v, id) ==
    IF find(v, id).err # ErrNil
    THEN [view |-> v, err |-> find(v, id).err]
    ELSE [view |-> [v EXCEPT !.items[find(v, id).i + 1] = v.items[Len(v.items)],
                             !.items[Len(v.items)] =
                                 IF find(v, id).i + 1 = Len(v.items)
                                 THEN EntityClear(@)
                                 ELSE IF @.nil THEN @ ELSE EntityClear(@),
                             !.size = v.size - 1],
          err |-> ErrNil]

\* a Remove that lowers the size whether or not it has found the entity
RemoveCounting(v, id) ==
    IF find(v, id).err = ErrNil
    THEN [view |-> [v EXCEPT !.items[find(v, id).i + 1] = EntityClear(@),
                             !.size = v.size - 1],
          err |-> ErrNil]
    ELSE [view |-> [v EXCEPT !.size = v.size - 1], err |-> find(v, id).err]

Remove(v, id) ==
    LET f == find(v, id)
    IN  IF f.err = ErrNil
        THEN [view |-> [v EXCEPT !.items[f.i + 1] = EntityClear(@),
                                 !.size = v.size - 1],
              err |-> ErrNil]
        ELSE [view |-> v, err |-> f.err]

\* Get: items[lookup[id]]; the call has no error result, and indexing an
\* empty items slice panics
Get(v, id) ==
    IF LookupGet(v, id) < Len(v.items)
    THEN [ent |-> Item(v, LookupGet(v, id)), err |-> ErrNil, panic |-> FALSE]
    ELSE [ent |-> NilSlot, err |-> ErrNil, panic |-> TRUE]

Clear(v) ==
    [v EXCEPT !.items = [i \in 1..Len(v.items) |->
                            IF i <= v.capacity /\ ~v.items[i].nil
                            THEN EntityClear(v.items[i])
                            ELSE v.items[i]],
              !.size = 0]

Size(v) == v.size

\* less functions that are no order at all: one that always answers true, one
\* that always answers false
OddLessFns == {"always", "never"}

\* the less functions of the callers: a strict order on ids, either way, or no
\* order at all
Less(less, a, b) ==
    CASE less = "idAsc"  -> a.id < b.id
      [] less = "idDesc" -> a.id > b.id
      [] less = "always" -> TRUE
      [] less = "never"  -> FALSE

\* a closure that tells a nil slot from an entity but not a tombstone from a
\* live entity
SortLessNilOnly(items, less, i, j) ==
    LET a == items[i + 1]
        b == items[j + 1]
    IN  IF a.nil THEN FALSE
        ELSE IF b.nil THEN TRUE
        ELSE Less(less, a, b)

\* the closure Sort hands to sort.Slice, on the slice as it is at that moment
SortLess(items, less, i, j) ==
    LET a == items[i + 1]
        b == items[j + 1]
    IN  IF a.nil THEN FALSE
        ELSE IF IsEmpty(a) THEN FALSE
        ELSE IF b.nil THEN TRUE
        ELSE IF IsEmpty(b) THEN TRUE
        ELSE Less(less, a, b)

\* a swap that writes one of the two slots only
SwapOver(items, i, j) ==
    [items EXCEPT ![j + 1] = items[i + 1]]

Swap(items, i, j) ==
    [items EXCEPT ![i + 1] = items[j + 1], ![j + 1] = items[i + 1]]

\* sort.Slice on a slice of at most 6 elements, which every store Sort is called
\* on here is (Spec), is an insertion sort in every Go release:
\* for i := 1; i < n; i++ { for j := i; j > 0 && less(j, j-1); j-- { swap(j, j-1) } }
\* an inner loop that moves the element down by one place at most
InsertionInnerOnce(items, less, j) ==
    IF j > 0 /\ SortLess(items, less, j, j - 1)
    THEN Swap(items, j, j - 1)
    ELSE items

RECURSIVE InsertionInner(_, _, _)
InsertionInner(items, less, j) ==
    IF j > 0 /\ SortLess(items, less, j, j - 1)
    THEN InsertionInner(Swap(items, j, j - 1), less, j - 1)
    ELSE items

RECURSIVE InsertionSort(_, _, _)
InsertionSort(items, less, i) ==
    IF i < Len(items)
    THEN InsertionSort(InsertionInner(items, less, i), less, i + 1)
    ELSE items

\* Sort: the slots are reordered in place; nothing else of the view is written
Sort(v, less) == [v EXCEPT !.items = InsertionSort(v.items, less, 1)]

\* ----------------------------------------------------------- Iterator --
NilIter == [nil |-> TRUE, current |-> -1, filter |-> {}]

\* the slots after the cursor an iterator may stop at
Matching(v, it) ==
    {i \in (it.current + 1)..(Len(v.items) - 1) :
        /\ ~Item(v, i).nil
        /\ ~IsEmpty(Item(v, i))
        /\ Contains(Item(v, i), it.filter)}

IteratorNext(v, it) ==
    IF Matching(v, it) # {}
    THEN [it EXCEPT !.current = CHOOSE x \in Matching(v, it) :
                                    \A y \in Matching(v, it) : x <= y]
    ELSE NilIter

first(v, it) ==
    IF Matching(v, it) # {}
    THEN [it EXCEPT !.current = CHOOSE x \in Matching(v, it) :
                                    \A y \in Matching(v, it) : x <= y]
    ELSE NilIter

Iterator(v, types) == first(v, [nil |-> FALSE, current |-> -1, filter |-> types])

Value(v, it) == Item(v, it.current)

\* for it := v.Iterator(types...); it != nil; it = it.Next() { ... it.Value() ... }
\* the slots visited, in visiting order
RECURSIVE Walk(_, _)
Walk(v, it) ==
    IF it.nil THEN <<>> ELSE <<it.current>> \o Walk(v, IteratorNext(v, it))

\* ------------------------------------------------------- sparse.Slice --
\* src/unnamed/part_011. A slice is created with a capacity of at least 1
\* here; as in the View, indices are 0-based and items[i] is ss.items[i + 1].
\* the zero value of item.ref
NilRef == [nil |-> TRUE]

NilItem == [ref |-> NilRef, valid |-> FALSE]

NewSlice(capacity) ==
    [capacity |-> capacity,
     grow     |-> capacity,
     items    |-> [i \in 1..capacity |-> NilItem],
     size     |-> 0]

sliceGrowCapacity(ss) ==
    [ss EXCEPT !.capacity = ss.capacity + ss.grow,
               !.items = ss.items \o [i \in 1..ss.grow |-> NilItem],
               !.grow = ((ss.capacity + ss.grow) \div 4) + 1]

\* the slots the scan of Add stops at
sliceInvalid(ss) == {i \in 0..(Len(ss.items) - 1) : ~ss.items[i + 1].valid}

\* Add: the first invalid slot, or else items[size] after a growth
sliceAdd(ss, ref) ==
    IF sliceInvalid(ss) # {}
    THEN LET i == CHOOSE x \in sliceInvalid(ss) : \A y \in sliceInvalid(ss) : x <= y
         IN  [ss EXCEPT !.items[i + 1] = [ref |-> ref, valid |-> TRUE],
                        !.size = ss.size + 1]
    ELSE LET g == sliceGrowCapacity(ss)
         IN  [g EXCEPT !.items[g.size + 1] = [ref |-> ref, valid |-> TRUE],
                       !.size = g.size + 1]

\* a Clear that resets the size and leaves the items where they are
sliceClearSize(ss) == [ss EXCEPT !.size = 0]

\* Clear: every slot up to capacity is invalidated
sliceClear(ss) ==
    [ss EXCEPT !.items = [i \in 1..Len(ss.items) |->
                             IF i <= ss.capacity THEN NilItem ELSE ss.items[i]],
               !.size = 0]

sliceSize(ss) == ss.size

\* sliceIterator: data is a copy of the slice struct, current the cursor. The
\* copy shares the array of the items with the slice until growCapacity gives
\* the slice a new one (sliceIteratorSees).
NilSliceIterator == [nil |-> TRUE, data |-> NewSlice(0), current |-> -1]

sliceValidAfter(it) ==
    {i \in (it.current + 1)..(Len(it.data.items) - 1) : it.data.items[i + 1].valid}

sliceIteratorNext(it) ==
    IF sliceValidAfter(it) # {}
    THEN [it EXCEPT !.current = CHOOSE x \in sliceValidAfter(it) :
                                    \A y \in sliceValidAfter(it) : x <= y]
    ELSE NilSliceIterator

sliceIteratorValue(it) == it.data.items[it.current + 1].ref

sliceIterator(ss) == sliceIteratorNext([nil |-> FALSE, data |-> ss, current |-> -1])

\* the iterator it, taken from a slice that is ss by now: Add and Sort write to
\* the array the iterator reads as long as the slice has not grown; the append
\* of the first growCapacity of a slice, whose array is full, moves the slice to
\* a new array and leaves the iterator the old one
sliceIteratorSees(it, ss) ==
    IF ~it.nil /\ Len(ss.items) = Len(it.data.items)
    THEN [it EXCEPT !.data.items = ss.items]
    ELSE it

\* the valid items of a slice, in slot order
RECURSIVE sliceRefsFrom(_)
sliceRefsFrom(it) ==
    IF it.nil THEN <<>>
    ELSE <<sliceIteratorValue(it)>> \o sliceRefsFrom(sliceIteratorNext(it))

sliceRefs(ss) == sliceRefsFrom(sliceIterator(ss))

\* sortSystemByPriority: higher priority first, among equals the lower id
sortSystemByPriority(a, b) ==
    IF a.priority = b.priority THEN a.id < b.id ELSE a.priority > b.priority

\* a comparison by id alone, whatever the priorities
sortSubsById(a, b) == a.id < b.id

\* sortSubsByPriority: higher priority first, among equals the lower id
sortSubsByPriority(a, b) ==
    IF a.priority = b.priority THEN a.id < b.id ELSE a.priority > b.priority

\* the less functions handed to slice.Sort, by name
sliceLessCall(less, a, b) ==
    IF less = "sortSystemByPriority" THEN sortSystemByPriority(a, b)
                                     ELSE sortSubsByPriority(a, b)

\* the closure slice.Sort hands to sort.Slice
sliceSortLess(items, less, i, j) ==
    LET a == items[i + 1]
        b == items[j + 1]
    IN  IF ~a.valid THEN FALSE
        ELSE IF ~b.valid THEN TRUE
        ELSE sliceLessCall(less, a.ref, b.ref)

\* sort.Slice on at most 6 items: the insertion sort of View.Sort
RECURSIVE sliceInsertionInner(_, _, _)
sliceInsertionInner(items, less, j) ==
    IF j > 0 /\ sliceSortLess(items, less, j, j - 1)
    THEN sliceInsertionInner(Swap(items, j, j - 1), less, j - 1)
    ELSE items

RECURSIVE sliceInsertionSort(_, _, _)
sliceInsertionSort(items, less, i) ==
    IF i < Len(items)
    THEN sliceInsertionSort(sliceInsertionInner(items, less, i), less, i + 1)
    ELSE items

\* a Sort that leaves the items where Add has put them
sliceSortNot(ss, less) == ss

sliceSort(ss, less) == [ss EXCEPT !.items = sliceInsertionSort(ss.items, less, 1)]

RECURSIVE sliceAssureCapacity(_, _)
sliceAssureCapacity(ss, capacity) ==
    IF ss.capacity < capacity
    THEN sliceAssureCapacity(sliceGrowCapacity(ss), capacity)
    ELSE ss

\* the loop of Copy: dest.Add(it.Value()) for every valid item of the source
RECURSIVE sliceCopyLoop(_, _)
sliceCopyLoop(it, dest) ==
    IF it.nil THEN dest
    ELSE sliceCopyLoop(sliceIteratorNext(it), sliceAdd(dest, sliceIteratorValue(it)))

sliceCopy(ss, dest) == sliceCopyLoop(sliceIterator(ss), sliceAssureCapacity(dest, ss.capacity))

\* a Replace that copies into dest without clearing it first
sliceReplaceKeep(ss, dest) == sliceCopy(ss, dest)

\* Replace: what dest is afterwards
sliceReplace(ss, dest) == sliceCopy(ss, sliceClear(dest))

\* ------------------------------------------------------------ Systems --
\* src/system.go. A System is named by the function registered; what each
\* does when invoked is CallSystem below.
NewSystems(systems) ==
    [registrations |-> NewSlice(systems), lastRegistrationID |-> 0]

\* a Register that adds the registration and leaves the slice as it is
RegisterUnsorted(sys, system, priority) ==
    LET id == sys.lastRegistrationID + 1
    IN  [registrations |->
             sliceAdd(sys.registrations,
                      [system |-> system, priority |-> priority, id |-> id]),
         lastRegistrationID |-> id]

Register(sys, system, priority) ==
    LET id == sys.lastRegistrationID + 1
    IN  [registrations |->
             sliceSort(sliceAdd(sys.registrations,
                                [system |-> system, priority |-> priority, id |-> id]),
                       "sortSystemByPriority"),
         lastRegistrationID |-> id]

\* Systems.Clear
SystemsClear(sys) == [sys EXCEPT !.registrations = sliceClear(@)]

\* ------------------------------------------------------ Subscriptions --
\* src/listener.go
NewSubscriptions(listeners, signals) ==
    [subscriptions      |-> NewSlice(listeners),
     lastSubscriptionID |-> 0,
     signals            |-> NewSlice(signals),
     toSend             |-> NewSlice(signals)]

Subscribe(subs, listener, priority, signals) ==
    LET id == subs.lastSubscriptionID + 1
    IN  [subs EXCEPT
            !.subscriptions =
                sliceSort(sliceAdd(subs.subscriptions,
                                   [listener |-> listener, signals |-> signals,
                                    priority |-> priority, id |-> id]),
                          "sortSubsByPriority"),
            !.lastSubscriptionID = id]

Signal(subs, signal) == [subs EXCEPT !.signals = sliceAdd(subs.signals, signal)]

\* a Clear that leaves toSend as it is
SubscriptionsClearQueued(subs) ==
    [subs EXCEPT !.subscriptions = sliceClear(@),
                 !.signals = sliceClear(@)]

\* Subscriptions.Clear
SubscriptionsClear(subs) ==
    [subs EXCEPT !.subscriptions = sliceClear(@),
                 !.signals = sliceClear(@),
                 !.toSend = sliceClear(@)]

\* -------------------------------------------------------------- World --
\* src/unnamed/part_012. The world holds its systems and its subscriptions;
\* x is the X of the Pos of an entity of the world that has a Vel of 1, the
\* value the movement systems and the reset listener of the tests write.
New(systems, listeners, signals, resources) ==
    [systems       |-> NewSystems(systems),
     subscriptions |-> NewSubscriptions(listeners, signals),
     resources     |-> NewView(resources),
     x             |-> 0]

AddSystemWithPriority(w, sys, priority) ==
    [w EXCEPT !.systems = Register(w.systems, sys, priority)]

AddListenerWithPriority(w, lis, priority, signals) ==
    [w EXCEPT !.subscriptions = Subscribe(w.subscriptions, lis, priority, signals)]

WorldSignal(w, signal) == [w EXCEPT !.subscriptions = Signal(w.subscriptions, signal)]

\* a Clear that leaves the systems registered
WorldClearBus(w) ==
    [w EXCEPT !.subscriptions = SubscriptionsClear(@),
              !.resources = Clear(@)]

\* World.Clear, but for the View of the entities, which the action clears
WorldClear(w) ==
    [w EXCEPT !.systems = SystemsClear(@),
              !.subscriptions = SubscriptionsClear(@),
              !.resources = Clear(@)]

\* an AddResource that adds to the View of the entities
AddResourceToView(w, v, data) ==
    [world |-> w, view |-> AddEntity(v, data).view, id |-> AddEntity(v, data).id,
     panic |-> AddEntity(v, data).panic]

\* World.AddResource, in a world w whose View of the entities is v: the world
\* and the View afterwards, the id returned, and whether AddEntity panicked
AddResource(w, v, data) ==
    [world |-> [w EXCEPT !.resources = AddEntity(@, data).view],
     view  |-> v,
     id    |-> AddEntity(w.resources, data).id,
     panic |-> AddEntity(w.resources, data).panic]

\* World.RemoveResource, which the test calls: Remove on the resources
RemoveResource(w, id) ==
    [world |-> [w EXCEPT !.resources = Remove(@, id).view],
     err   |-> Remove(w.resources, id).err]

\* a First that looks at the first entity stored, whatever it holds
FirstStored(v, types) ==
    IF Iterator(v, {}).nil
    THEN [id |-> 0, err |-> ErrEntityNotFound]
    ELSE [id |-> Value(v, Iterator(v, {})).id, err |-> ErrNil]

\* View.First, which FindResource calls: the id of the first entity that holds
\* the types, or an error when none does
First(v, types) ==
    IF Iterator(v, types).nil
    THEN [id |-> 0, err |-> ErrEntityNotFound]
    ELSE [id |-> Value(v, Iterator(v, types)).id, err |-> ErrNil]

\* World.FindResource
FindResource(w, types) ==
    IF First(w.resources, types).err = ErrNil THEN First(w.resources, types).id ELSE 0

\* ---------------------------------------------- systems and listeners --
errFailure == "failure"

\* the types of the signals, and the signals: a value of one of the types
SignalTypes == {"signal1", "signal2"}

NewSignal(type) == [type |-> type]

NoSignal == [type |-> "none"]

\* the functions registered as systems:
\*   systemA          returns nil
\*   HMovementSystem  adds the Vel to the Pos, returns nil
\*   MovementSystem   adds the Vel to the Pos, signals the change, returns nil
\*   FailureSystem    returns errFailure
\*   signalSystem     signals signal1, returns nil
\*   failOnceSystem   if the Pos is 0, sets it to 1 and returns errFailure;
\*                    returns nil otherwise
SystemFns == {"systemA", "HMovementSystem", "MovementSystem", "FailureSystem",
              "signalSystem", "failOnceSystem"}

\* the functions subscribed as listeners:
\*   listenerA        returns nil
\*   ResetHListener   sets the Pos back to 0, returns nil
\*   relayListener    signals the signal it is given once more, returns nil
\*   FailureListener  returns errFailure
\*   subscribeListener       if the Pos is 0, sets it to 1 and subscribes
\*                           listenerA to the type of the signal it is given
\*                           with AddListener; returns nil
\*   subscribeFirstListener  the same with AddListenerWithPriority and a
\*                           priority of 100
ListenerFns == {"listenerA", "ResetHListener", "relayListener", "FailureListener",
                "subscribeListener", "subscribeFirstListener"}

\* the signals an invocation raises with world.Signal, in order
Raises(fn, signal) ==
    CASE fn \in {"MovementSystem", "signalSystem"} -> <<NewSignal("signal1")>>
      [] fn = "relayListener"  -> <<signal>>
      [] OTHER                 -> <<>>

\* the error an invocation returns
Returns(fn) == IF fn \in {"FailureSystem", "FailureListener"} THEN errFailure ELSE ErrNil

\* the Pos after an invocation
Moves(fn, x) ==
    CASE fn \in {"HMovementSystem", "MovementSystem"} -> x + 1
      [] fn = "ResetHListener"                        -> 0
      [] fn \in {"subscribeListener", "subscribeFirstListener"} -> 1
      [] fn = "failOnceSystem"                        -> 1
      [] OTHER                                        -> x

\* the error an invocation returns in a world whose Pos is x
ReturnsIn(fn, x) ==
    IF fn = "failOnceSystem"
    THEN (IF x = 0 THEN errFailure ELSE ErrNil)
    ELSE Returns(fn)

\* the subscriptions an invocation makes, in order, in a world whose Pos is x
Subscribes(fn, x, signal) ==
    CASE fn = "subscribeListener" /\ x = 0 ->
             <<[listener |-> "listenerA", priority |-> 0, signals |-> <<signal.type>>]>>
      [] fn = "subscribeFirstListener" /\ x = 0 ->
             <<[listener |-> "listenerA", priority |-> 100, signals |-> <<signal.type>>]>>
      [] OTHER -> <<>>

RECURSIVE SignalAll(_, _, _)
SignalAll(w, signals, k) ==
    IF k > Len(signals) THEN w ELSE SignalAll(WorldSignal(w, signals[k]), signals, k + 1)

\* sr.system(world, delta): the world afterwards and the error returned
CallSystem(fn, w) ==
    [world |-> SignalAll([w EXCEPT !.x = Moves(fn, w.x)], Raises(fn, NoSignal), 1),
     err   |-> ReturnsIn(fn, w.x)]

RECURSIVE SubscribeAll(_, _, _)
SubscribeAll(w, subs, k) ==
    IF k > Len(subs)
    THEN w
    ELSE SubscribeAll(AddListenerWithPriority(w, subs[k].listener, subs[k].priority,
                                              subs[k].signals),
                      subs, k + 1)

\* sub.listener(world, signal, delta)
CallListener(fn, w, signal) ==
    [world |-> SubscribeAll(SignalAll([w EXCEPT !.x = Moves(fn, w.x)],
                                      Raises(fn, signal), 1),
                            Subscribes(fn, w.x, signal), 1),
     err   |-> Returns(fn)]

\* one invocation, as recorded in the order it happened
SystemCalled(sr) ==
    [kind |-> "system", fn |-> sr.system, id |-> sr.id, signal |-> NoSignal]

ListenerCalled(sub, signal) ==
    [kind |-> "listener", fn |-> sub.listener, id |-> sub.id, signal |-> signal]

\* ------------------------------------------------------------- Update --
\* a loop that drops the error of a system and goes on to the next one
RECURSIVE SystemsLoopOn(_, _, _)
SystemsLoopOn(it, w, calls) ==
    IF it.nil
    THEN [world |-> w, err |-> ErrNil, calls |-> calls]
    ELSE LET sr == sliceIteratorValue(it)
             r == CallSystem(sr.system, w)
         IN  SystemsLoopOn(sliceIteratorNext(it), r.world, Append(calls, SystemCalled(sr)))

\* the loop of Systems.Update from the iterator it on: the world afterwards, the
\* error returned and the invocations made, given those made so far
RECURSIVE SystemsLoop(_, _, _)
SystemsLoop(it, w, calls) ==
    IF it.nil
    THEN [world |-> w, err |-> ErrNil, calls |-> calls]
    ELSE LET sr == sliceIteratorValue(it)
             r == CallSystem(sr.system, w)
         IN  IF r.err # ErrNil
             THEN [world |-> r.world, err |-> r.err,
                   calls |-> Append(calls, SystemCalled(sr))]
             ELSE SystemsLoop(sliceIteratorNext(it), r.world,
                              Append(calls, SystemCalled(sr)))

SystemsUpdate(w) == SystemsLoop(sliceIterator(w.systems.registrations), w, <<>>)

\* a loop over sub.signals that has no break: it goes on after a match
RECURSIVE processTypesOn(_, _, _, _, _)
processTypesOn(sub, k, w, signal, calls) ==
    IF k > Len(sub.signals)
    THEN [world |-> w, err |-> ErrNil, calls |-> calls]
    ELSE IF sub.signals[k] = signal.type
         THEN LET r == CallListener(sub.listener, w, signal)
              IN  IF r.err # ErrNil
                  THEN [world |-> r.world, err |-> r.err,
                        calls |-> Append(calls, ListenerCalled(sub, signal))]
                  ELSE processTypesOn(sub, k + 1, r.world, signal,
                                      Append(calls, ListenerCalled(sub, signal)))
         ELSE processTypesOn(sub, k + 1, w, signal, calls)

\* process, the loop over sub.signals from its k-th type on: at the first type
\* equal to the signal's the listener is invoked and the loop is left, by the
\* return on an error and by the break otherwise
RECURSIVE processTypes(_, _, _, _, _)
processTypes(sub, k, w, signal, calls) ==
    IF k > Len(sub.signals)
    THEN [world |-> w, err |-> ErrNil, calls |-> calls]
    ELSE IF sub.signals[k] = signal.type
         THEN LET r == CallListener(sub.listener, w, signal)
              IN  [world |-> r.world, err |-> r.err,
                   calls |-> Append(calls, ListenerCalled(sub, signal))]
         ELSE processTypes(sub, k + 1, w, signal, calls)

\* process, the loop over the subscriptions from the iterator it on
RECURSIVE processLoop(_, _, _, _)
processLoop(it, w, signal, calls) ==
    IF it.nil
    THEN [world |-> w, err |-> ErrNil, calls |-> calls]
    ELSE LET r == processTypes(sliceIteratorValue(it), 1, w, signal, calls)
         IN  IF r.err # ErrNil
             THEN r
             ELSE processLoop(sliceIteratorNext(
                                  sliceIteratorSees(it, r.world.subscriptions.subscriptions)),
                              r.world, signal, r.calls)

process(w, signal, calls) ==
    processLoop(sliceIterator(w.subscriptions.subscriptions), w, signal, calls)

\* a loop that gives up the signal a listener has failed on and goes on with the
\* next signal
RECURSIVE SubscriptionsLoopOn(_, _, _)
SubscriptionsLoopOn(ite, w, calls) ==
    IF ite.nil
    THEN [world |-> w, err |-> ErrNil, calls |-> calls]
    ELSE LET r == process(w, sliceIteratorValue(ite), calls)
         IN  SubscriptionsLoopOn(sliceIteratorNext(ite), r.world, r.calls)

\* Subscriptions.Update, the loop over toSend from the iterator ite on
RECURSIVE SubscriptionsLoop(_, _, _)
SubscriptionsLoop(ite, w, calls) ==
    IF ite.nil
    THEN [world |-> w, err |-> ErrNil, calls |-> calls]
    ELSE LET r == process(w, sliceIteratorValue(ite), calls)
         IN  IF r.err # ErrNil
             THEN r
             ELSE SubscriptionsLoop(sliceIteratorNext(ite), r.world, r.calls)

\* an Update that sends the signals straight from the incoming slice
SubscriptionsUpdateInPlace(w) ==
    IF sliceSize(w.subscriptions.signals) = 0
    THEN [world |-> w, err |-> ErrNil, calls |-> <<>>]
    ELSE LET r == SubscriptionsLoop(sliceIterator(w.subscriptions.signals), w, <<>>)
         IN  IF r.err # ErrNil
             THEN r
             ELSE [r EXCEPT !.world.subscriptions.signals = sliceClear(@)]

\* an Update that leaves the incoming signals in place after copying them
SubscriptionsUpdateKeepQueue(w) ==
    IF sliceSize(w.subscriptions.signals) = 0
    THEN [world |-> w, err |-> ErrNil, calls |-> <<>>]
    ELSE LET toSend == sliceReplace(w.subscriptions.signals, w.subscriptions.toSend)
             w1 == [w EXCEPT !.subscriptions.toSend = toSend]
             r == SubscriptionsLoop(sliceIterator(toSend), w1, <<>>)
         IN  IF r.err # ErrNil
             THEN r
             ELSE [r EXCEPT !.world.subscriptions.toSend = sliceClear(@)]

\* an Update that, once the signals have been sent, sends in the same call the
\* signals the listeners have raised meanwhile
SubscriptionsUpdateDrain(w) ==
    LET Pass(v, calls) ==
            LET toSend == sliceReplace(v.subscriptions.signals, v.subscriptions.toSend)
                v1 == [v EXCEPT !.subscriptions.toSend = toSend,
                                !.subscriptions.signals = sliceClear(@)]
                r == SubscriptionsLoop(sliceIterator(toSend), v1, calls)
            IN  IF r.err # ErrNil
                THEN r
                ELSE [r EXCEPT !.world.subscriptions.toSend = sliceClear(@)]
    IN  IF sliceSize(w.subscriptions.signals) = 0
        THEN [world |-> w, err |-> ErrNil, calls |-> <<>>]
        ELSE LET p == Pass(w, <<>>)
             IN  IF p.err # ErrNil \/ sliceSize(p.world.subscriptions.signals) = 0
                 THEN p
                 ELSE Pass(p.world, p.calls)

\* an Update that does not return early when no signal is waiting
SubscriptionsUpdateAlways(w) ==
    LET toSend == sliceReplace(w.subscriptions.signals, w.subscriptions.toSend)
        w1 == [w EXCEPT !.subscriptions.toSend = toSend,
                        !.subscriptions.signals = sliceClear(@)]
        r == SubscriptionsLoop(sliceIterator(toSend), w1, <<>>)
    IN  IF r.err # ErrNil
        THEN r
        ELSE [r EXCEPT !.world.subscriptions.toSend = sliceClear(@)]

\* an Update that puts back in the incoming slice the signals no listener was
\* invoked with
SubscriptionsUpdateKeepUnheard(w) ==
    IF sliceSize(w.subscriptions.signals) = 0
    THEN [world |-> w, err |-> ErrNil, calls |-> <<>>]
    ELSE LET toSend == sliceReplace(w.subscriptions.signals, w.subscriptions.toSend)
             w1 == [w EXCEPT !.subscriptions.toSend = toSend,
                             !.subscriptions.signals = sliceClear(@)]
             r == SubscriptionsLoop(sliceIterator(toSend), w1, <<>>)
             RECURSIVE PutBack(_, _)
             PutBack(v, k) ==
                 IF k > Len(sliceRefs(toSend))
                 THEN v
                 ELSE PutBack(IF \E c \in DOMAIN r.calls :
                                      r.calls[c].signal = sliceRefs(toSend)[k]
                              THEN v
                              ELSE WorldSignal(v, sliceRefs(toSend)[k]),
                              k + 1)
         IN  IF r.err # ErrNil
             THEN r
             ELSE [r EXCEPT !.world = PutBack([r.world EXCEPT
                                                  !.subscriptions.toSend = sliceClear(@)], 1)]

\* Subscriptions.Update: the incoming signals replace toSend and are cleared,
\* toSend is sent, and cleared if no listener failed
SubscriptionsUpdate(w) ==
    IF sliceSize(w.subscriptions.signals) = 0
    THEN [world |-> w, err |-> ErrNil, calls |-> <<>>]
    ELSE LET toSend == sliceReplace(w.subscriptions.signals, w.subscriptions.toSend)
             w1 == [w EXCEPT !.subscriptions.toSend = toSend,
                             !.subscriptions.signals = sliceClear(@)]
             r == SubscriptionsLoop(sliceIterator(toSend), w1, <<>>)
         IN  IF r.err # ErrNil
             THEN r
             ELSE [r EXCEPT !.world.subscriptions.toSend = sliceClear(@)]

\* a World.Update that sends the signals before it runs the systems
WorldUpdateSendFirst(w) ==
    LET q == SubscriptionsUpdate(w)
    IN  IF q.err # ErrNil
        THEN q
        ELSE LET r == SystemsUpdate(q.world)
             IN  [world |-> r.world, err |-> r.err, calls |-> q.calls \o r.calls]

\* a World.Update that sends the signals whether or not the systems succeeded
WorldUpdateBoth(w) ==
    LET r == SystemsUpdate(w)
        q == SubscriptionsUpdate(r.world)
    IN  [world |-> q.world, err |-> IF r.err # ErrNil THEN r.err ELSE q.err,
         calls |-> r.calls \o q.calls]

\* a World.Update that throws the waiting signals away when a system fails
WorldUpdateDropping(w) ==
    LET r == SystemsUpdate(w)
    IN  IF r.err # ErrNil
        THEN [r EXCEPT !.world.subscriptions.signals = sliceClear(@)]
        ELSE LET q == SubscriptionsUpdate(r.world)
             IN  [world |-> q.world, err |-> q.err, calls |-> r.calls \o q.calls]

\* World.Update
WorldUpdate(w) ==
    LET r == SystemsUpdate(w)
    IN  IF r.err # ErrNil
        THEN r
        ELSE LET q == SubscriptionsUpdate(r.world)
             IN  [world |-> q.world, err |-> q.err, calls |-> r.calls \o q.calls]

\* -------------------------------------- the world that removes systems --
\* src/unnamed/part_003: a World that holds its systems in a sparse.Slice in the
\* order they were added, sorts a copy of them by priority in every Update, and
\* has RemoveSystem. A System has an Update and a Notify method and is named
\* here by its type. The slices are created large enough (100 and 10) never to
\* grow within the bounds of the specifications.
ErrItemNotFound == "item not found"

systemsInitialCapacity == 100

eventsInitialCapacity == 10

\* find: the first valid item equal to ref, -1 for ErrItemNotFound
sliceFind(ss, ref) ==
    LET found == {i \in 0..(Len(ss.items) - 1) :
                     ss.items[i + 1].valid /\ ss.items[i + 1].ref = ref}
    IN  IF found = {} THEN -1 ELSE CHOOSE i \in found : \A j \in found : i <= j

\* slice.Remove: the slice afterwards and the error
sliceRemove(ss, ref) ==
    LET i == sliceFind(ss, ref)
    IN  IF i >= 0
        THEN [slice |-> [ss EXCEPT !.items[i + 1] = NilItem, !.size = ss.size - 1],
              err |-> ErrNil]
        ELSE [slice |-> ss, err |-> ErrItemNotFound]

\* New
WldNew ==
    [systems |-> [NewSlice(systemsInitialCapacity) EXCEPT
                     !.grow = systemsInitialCapacity \div 4],
     events  |-> [NewSlice(eventsInitialCapacity) EXCEPT
                     !.grow = eventsInitialCapacity \div 4],
     lastID  |-> 0]

\* AddSystemWithPriority: the id is lastID, which is then incremented
WldAddSystemWithPriority(wld, sys, priority) ==
    [wld EXCEPT !.systems = sliceAdd(@, [system |-> sys, priority |-> priority,
                                         id |-> wld.lastID]),
                !.lastID = @ + 1]

\* RemoveSystem: the first item of the slice whose system is sys is removed
RemoveSystem(wld, sys) ==
    LET refs == sliceRefs(wld.systems)
        at == {k \in DOMAIN refs : refs[k].system = sys}
    IN  IF at = {}
        THEN [world |-> wld, err |-> ErrItemNotFound]
        ELSE LET s == refs[CHOOSE k \in at : \A j \in at : k <= j]
                 r == sliceRemove(wld.systems, s)
             IN  [world |-> [wld EXCEPT !.systems = r.slice], err |-> r.err]

\* Notify: the event is added to the events
WldNotify(wld, event) == [wld EXCEPT !.events = sliceAdd(@, event)]

\* getPriorityList: the systems, copied and sorted by priority and then id
getPriorityList(wld) ==
    LET refs == sliceRefs(wld.systems)
        sorted == sliceInsertionSort([k \in DOMAIN refs |-> [ref |-> refs[k], valid |-> TRUE]],
                                     "sortSystemByPriority", 1)
    IN  [k \in DOMAIN sorted |-> sorted[k].ref]

\* what the Update and the Notify of a system return
UpdateReturns(sys) == IF sys = "FailureUpdateSystem" THEN errFailure ELSE ErrNil

NotifyReturns(sys) == IF sys = "FailureNotifySystem" THEN errFailure ELSE ErrNil

\* the loop of Update over the priority list from its k-th system on
RECURSIVE WldUpdateLoop(_, _, _)
WldUpdateLoop(pl, k, calls) ==
    IF k > Len(pl) THEN [err |-> ErrNil, calls |-> calls]
    ELSE LET made == Append(calls, [kind |-> "system", fn |-> pl[k].system,
                                    id |-> pl[k].id, signal |-> NoSignal])
         IN  IF UpdateReturns(pl[k].system) # ErrNil
             THEN [err |-> UpdateReturns(pl[k].system), calls |-> made]
             ELSE WldUpdateLoop(pl, k + 1, made)

\* sendEvents, the loop over the systems for one event
RECURSIVE sendEventLoop(_, _, _, _)
sendEventLoop(pl, k, event, calls) ==
    IF k > Len(pl) THEN [err |-> ErrNil, calls |-> calls]
    ELSE LET made == Append(calls, [kind |-> "listener", fn |-> pl[k].system,
                                    id |-> pl[k].id, signal |-> event])
         IN  IF NotifyReturns(pl[k].system) # ErrNil
             THEN [err |-> NotifyReturns(pl[k].system), calls |-> made]
             ELSE sendEventLoop(pl, k + 1, event, made)

\* sendEvents, the loop over the events
RECURSIVE sendEventsLoop(_, _, _)
sendEventsLoop(it, pl, calls) ==
    IF it.nil THEN [err |-> ErrNil, calls |-> calls]
    ELSE LET r == sendEventLoop(pl, 1, sliceIteratorValue(it), calls)
         IN  IF r.err # ErrNil THEN r
             ELSE sendEventsLoop(sliceIteratorNext(it), pl, r.calls)

\* sendEvents: the events are cleared when every Notify has returned nil
sendEvents(wld, pl, calls) ==
    LET r == sendEventsLoop(sliceIterator(wld.events), pl, calls)
    IN  [world |-> IF r.err # ErrNil THEN wld ELSE [wld EXCEPT !.events = sliceClear(@)],
         err |-> r.err, calls |-> r.calls]

\* Update
WldUpdate(wld) ==
    LET pl == getPriorityList(wld)
        r == WldUpdateLoop(pl, 1, <<>>)
    IN  IF r.err # ErrNil
        THEN [world |-> wld, err |-> r.err, calls |-> r.calls]
        ELSE sendEvents(wld, pl, r.calls)

\* ------------------------------------------------------------ actions --
\* ret: the call (op, its argument id or data), and its results: the id and
\* slot of an added entity and whether a tombstone was reused, the error, the
\* entity Get returned, the slots an iteration visited, a panic
RetNone ==
    [op |-> "NewView", id |-> 0, data |-> {}, slot |-> -1, reused |-> FALSE,
     err |-> ErrNil, panic |-> FALSE, ent |-> NilSlot, yield |-> <<>>]

Range(s) == {s[i] : i \in DOMAIN s}

\* wret: the last call made on the world, the error it returned and the
\* invocations of systems and listeners it made, in order
WRetNone == [op |-> "New", err |-> ErrNil, calls |-> <<>>]

HistNone == [registered |-> <<>>, subscribed |-> <<>>, queued |-> <<>>, sent |-> <<>>]

\* the priorities given to systems and listeners: defaultPriority and a higher one
defaultPriority == 0

Priorities == {defaultPriority, 100}

\* the priority and the signal types a listener is subscribed with: one type
\* at a priority of 100, or at defaultPriority a list that names another type
\* twice and that type as well
Filters ==
    {[priority |-> 100, signals |-> <<"signal1">>],
     [priority |-> defaultPriority, signals |-> <<"signal2", "signal1", "signal2">>]}

\* the signals a sequence of invocations has raised, in order
RECURSIVE RaisedBy(_)
RaisedBy(calls) ==
    IF calls = <<>> THEN <<>>
    ELSE Raises(Head(calls).fn, Head(calls).signal) \o RaisedBy(Tail(calls))

\* the world is left as created while the store is exercised
WorldIdle ==
    /\ world = New(1, 1, 1, 1)
    /\ wret = WRetNone
    /\ hist = HistNone

Init ==
    /\ WorldIdle
    /\ \E capacity \in 0..MaxInitCap :
          /\ view = NewView(capacity)
          /\ created = capacity
    /\ ret = RetNone
    /\ issued = <<>>
    /\ alive = {}
    /\ removed = {}

\* a panic ends the program: no call follows it
Running == ~ret.panic

AddEntityStep(data, limit) ==
    /\ Running
    /\ view.lastID < limit
    /\ LET r == AddEntity(view, data)
       IN  /\ view' = r.view
           /\ ret' = [RetNone EXCEPT !.op = "AddEntity", !.id = r.id, !.data = data,
                                     !.slot = r.slot, !.reused = r.reused,
                                     !.panic = r.panic]
           /\ issued' = IF r.panic THEN issued ELSE Append(issued, r.id)
           /\ alive' = IF ~r.panic /\ data # {} THEN alive \cup {r.id} ELSE alive
    /\ UNCHANGED <<created, removed, worldVars>>

DoAddEntity(data) == AddEntityStep(data, MaxID)

DoRemove(id) ==
    /\ Running
    /\ LET r == Remove(view, id)
       IN  /\ view' = r.view
           /\ ret' = [RetNone EXCEPT !.op = "Remove", !.id = id, !.err = r.err]
           /\ removed' = IF r.err = ErrNil THEN removed \cup {id} ELSE removed
    /\ alive' = alive \ {id}
    /\ UNCHANGED <<created, issued, worldVars>>

DoGet(id) ==
    /\ Running
    /\ LET r == Get(view, id)
       IN  ret' = [RetNone EXCEPT !.op = "Get", !.id = id, !.err = r.err,
                                  !.ent = r.ent, !.panic = r.panic]
    /\ UNCHANGED <<view, created, issued, alive, removed, worldVars>>

DoClear ==
    /\ Running
    /\ view' = Clear(view)
    /\ ret' = [RetNone EXCEPT !.op = "Clear"]
    /\ alive' = {}
    /\ UNCHANGED <<created, issued, removed, worldVars>>

DoSort(less) ==
    /\ Running
    /\ view' = Sort(view, less)
    /\ ret' = [RetNone EXCEPT !.op = "Sort"]
    /\ UNCHANGED <<created, issued, alive, removed, worldVars>>

DoIterate(types) ==
    /\ Running
    /\ ret' = [RetNone EXCEPT !.op = "Iterate", !.data = types,
                              !.yield = Walk(view, Iterator(view, types))]
    /\ UNCHANGED <<view, created, issued, alive, removed, worldVars>>

Next ==
    \/ \E data \in SUBSET Types : DoAddEntity(data)
    \/ \E id \in 0..MaxID : DoRemove(id)
    \/ \E id \in 0..MaxID : DoGet(id)
    \/ DoClear
    \/ \E less \in LessFns : DoSort(less)
    \/ \E types \in SUBSET Types : DoIterate(types)

Spec == Init /\ [][Next]_vars

\* longer runs of adds and removes only, with or without a component
LongAddEntity(data) == AddEntityStep(data, MaxLongID)

LongRemove(id) == DoRemove(id)

NextLong ==
    \/ \E data \in {{}, {"Pos"}} : LongAddEntity(data)
    \/ \E id \in 1..MaxLongID : LongRemove(id)

SpecLong == Init /\ [][NextLong]_vars

\* the calls that decide what Sort finds and leaves: adds with or without a
\* component, removes, and Sort
SortAddEntity(data) == AddEntityStep(data, MaxID)

SortRemove(id) == DoRemove(id)

SortSort(less) == DoSort(less)

NextSort ==
    \/ \E data \in {{}, {"Pos"}} : SortAddEntity(data)
    \/ \E id \in 1..MaxID : SortRemove(id)
    \/ \E less \in LessFns : SortSort(less)

SpecSort == Init /\ [][NextSort]_vars

\* ------------------------------------------------- actions of a world --
\* the store is left as created while a world is exercised
StoreIdle ==
    /\ view = NewView(1)
    /\ created = 1
    /\ ret = RetNone
    /\ issued = <<>>
    /\ alive = {}
    /\ removed = {}

\* Systems alone: Register and Systems.Update
InitSys ==
    /\ StoreIdle
    /\ \E systems \in 1..MaxInitCap : world = New(systems, 1, 1, 1)
    /\ wret = WRetNone
    /\ hist = HistNone

DoRegister(system, priority) ==
    /\ world.systems.lastRegistrationID < MaxSystems
    /\ world' = AddSystemWithPriority(world, system, priority)
    /\ wret' = [WRetNone EXCEPT !.op = "Register"]
    /\ hist' = [hist EXCEPT !.registered =
                                Append(@, [system |-> system, priority |-> priority])]
    /\ UNCHANGED storeVars

DoSystemsUpdate ==
    /\ world.x < MaxX
    /\ \E r \in {SystemsUpdate(world)} :
          /\ world' = r.world
          /\ wret' = [op |-> "Update", err |-> r.err, calls |-> r.calls]
    /\ UNCHANGED <<hist, storeVars>>

NextSys ==
    \/ \E system \in {"systemA", "HMovementSystem", "FailureSystem"} :
          \E priority \in Priorities : DoRegister(system, priority)
    \/ DoSystemsUpdate

SpecSys == InitSys /\ [][NextSys]_vars

\* Subscriptions alone: Subscribe, Signal and Subscriptions.Update
InitBus ==
    /\ StoreIdle
    /\ world = New(1, 1, 1, 1)
    /\ wret = WRetNone
    /\ hist = HistNone

DoSubscribe(listener, priority, signals) ==
    /\ world.subscriptions.lastSubscriptionID < MaxListeners
    /\ world' = AddListenerWithPriority(world, listener, priority, signals)
    /\ wret' = [WRetNone EXCEPT !.op = "Subscribe"]
    /\ hist' = [hist EXCEPT !.subscribed =
                                Append(@, [listener |-> listener, priority |-> priority,
                                           signals |-> signals])]
    /\ UNCHANGED storeVars

DoSignal(type) ==
    /\ sliceSize(world.subscriptions.signals) < MaxSignals
    /\ world' = WorldSignal(world, NewSignal(type))
    /\ wret' = [WRetNone EXCEPT !.op = "Signal"]
    /\ hist' = [hist EXCEPT !.queued = Append(@, NewSignal(type))]
    /\ UNCHANGED storeVars

DoSubscriptionsUpdate ==
    /\ sliceSize(world.subscriptions.signals) <= MaxSignals
    /\ \E r \in {SubscriptionsUpdate(world)} :
          /\ world' = r.world
          /\ wret' = [op |-> "Update", err |-> r.err, calls |-> r.calls]
          /\ hist' = [hist EXCEPT !.queued =
                                      IF @ = <<>> THEN @ ELSE RaisedBy(r.calls)]
    /\ UNCHANGED storeVars

NextBus ==
    \/ \E listener \in {"listenerA", "relayListener", "FailureListener"} :
          \E f \in Filters : DoSubscribe(listener, f.priority, f.signals)
    \/ \E type \in SignalTypes : DoSignal(type)
    \/ DoSubscriptionsUpdate

SpecBus == InitBus /\ [][NextBus]_vars

\* the world: AddSystem, AddListener, Signal and World.Update
InitWorld ==
    /\ StoreIdle
    /\ world = New(1, 1, 1, 1)
    /\ wret = WRetNone
    /\ hist = HistNone

DoAddSystem(sys) == DoRegister(sys, defaultPriority)

DoAddListener(lis, signals) == DoSubscribe(lis, defaultPriority, signals)

DoWorldSignal(type) == DoSignal(type)

\* the invocations of one kind among calls, in order
RECURSIVE CallsOf(_, _)
CallsOf(kind, calls) ==
    IF calls = <<>> THEN <<>>
    ELSE IF Head(calls).kind = kind
         THEN <<Head(calls)>> \o CallsOf(kind, Tail(calls))
         ELSE CallsOf(kind, Tail(calls))

SystemCalls(calls) == CallsOf("system", calls)

ListenerCalls(calls) == CallsOf("listener", calls)

DoWorldUpdate ==
    /\ world.x < MaxX
    /\ sliceSize(world.subscriptions.signals) <= MaxSignals
    /\ \E r \in {WorldUpdate(world)} :
          /\ world' = r.world
          /\ wret' = [op |-> "Update", err |-> r.err, calls |-> r.calls]
          /\ hist' = [hist EXCEPT !.queued =
                         IF \E k \in DOMAIN r.calls :
                                /\ r.calls[k].kind = "system"
                                /\ Returns(r.calls[k].fn) # ErrNil
                         THEN @ \o RaisedBy(SystemCalls(r.calls))
                         ELSE RaisedBy(ListenerCalls(r.calls))]
    /\ UNCHANGED storeVars

NextWorld ==
    \/ \E sys \in {"MovementSystem", "FailureSystem"} : DoAddSystem(sys)
    \/ \E lis \in {"ResetHListener", "FailureListener"} :
          DoAddListener(lis, <<"signal1">>)
    \/ DoWorldSignal("signal1")
    \/ DoWorldUpdate

SpecWorld == InitWorld /\ [][NextWorld]_vars

\* the world with Clear: AddEntity, AddSystem, AddListener,
\* Signal, World.Update and World.Clear
InitClear ==
    /\ StoreIdle
    /\ world = New(1, 1, 1, 1)
    /\ wret = WRetNone
    /\ hist = HistNone

ClearAddEntity(data) == AddEntityStep(data, MaxStored)

ClearAddSystem(sys) ==
    /\ world.systems.lastRegistrationID < MaxStored
    /\ DoRegister(sys, defaultPriority)

ClearAddListener(lis, signals) ==
    /\ world.subscriptions.lastSubscriptionID < MaxStored
    /\ DoSubscribe(lis, defaultPriority, signals)

\* hist.queued is left as it is by Clear, and tells after a Clear which signals
\* were waiting when it was called; the next Update empties it
ClearSignal(type) ==
    /\ Len(hist.queued) < MaxSignals
    /\ DoSignal(type)

\* World.Clear: the systems, the subscriptions, the View and the resources
DoWorldClear ==
    /\ Running
    /\ world' = WorldClear(world)
    /\ view' = Clear(view)
    /\ wret' = [WRetNone EXCEPT !.op = "Clear"]
    /\ ret' = [RetNone EXCEPT !.op = "Clear"]
    /\ alive' = {}
    /\ UNCHANGED <<hist, created, issued, removed>>

NextClear ==
    \/ ClearAddEntity({"Pos"})
    \/ ClearAddSystem("systemA")
    \/ \E lis \in {"listenerA", "FailureListener"} : ClearAddListener(lis, <<"signal1">>)
    \/ ClearSignal("signal1")
    \/ DoWorldUpdate
    \/ DoWorldClear

SpecClear == InitClear /\ [][NextClear]_vars

\* worlds created with any capacities, and systems and listeners of either
\* priority: the calls that decide the order of the invocations of an Update
InitOrder ==
    /\ StoreIdle
    /\ \E cap \in 1..MaxInitCap : world = New(cap, cap, cap, 1)
    /\ wret = WRetNone
    /\ hist = HistNone

OrderAddSystem(sys, priority) ==
    /\ world.systems.lastRegistrationID < MaxListeners
    /\ DoRegister(sys, priority)

\* the systems and the listeners added, each with its priority
Ordered ==
    [systems   |-> {[fn |-> "MovementSystem", priority |-> defaultPriority],
                    [fn |-> "systemA", priority |-> 100]},
     listeners |-> {[fn |-> "FailureListener", priority |-> defaultPriority],
                    [fn |-> "listenerA", priority |-> 100]}]

NextOrder ==
    \/ \E sys \in Ordered.systems : OrderAddSystem(sys.fn, sys.priority)
    \/ \E lis \in Ordered.listeners :
          DoSubscribe(lis.fn, lis.priority, <<"signal1">>)
    \/ DoSignal("signal1")
    \/ DoWorldUpdate

SpecOrder == InitOrder /\ [][NextOrder]_vars

\* an entity on its own: NewEntity, then Add, Set, Get and Remove on it. Here
\* ret holds the entity and the last call made on it: the component or the
\* type given, the entity as it was before the call and what Get returned
Components == {NewComponent(type, value) : type \in Types, value \in 0..MaxValue}

EntityRet(op, type, component, was, ent, got) ==
    [op |-> op, type |-> type, component |-> component, was |-> was, ent |-> ent,
     got |-> got]

InitEntity ==
    /\ view = NewView(1)
    /\ created = 1
    /\ issued = <<>>
    /\ alive = {}
    /\ removed = {}
    /\ WorldIdle
    /\ \E id \in 1..MaxID :
       \E given \in {<<>>} \cup {<<c>> : c \in Components}
                           \cup {<<c, d>> : c \in Components, d \in Components} :
           ret = EntityRet("NewEntity", "", NilComponent, NewEntityWith(id, <<>>),
                           NewEntityWith(id, given), NilComponent)

DoEntityAdd(component) ==
    /\ ret' = EntityRet("Add", component.type, component, ret.ent,
                        EntityAdd(ret.ent, component), NilComponent)
    /\ UNCHANGED <<view, created, issued, alive, removed, worldVars>>

DoEntitySet(component) ==
    /\ ret' = EntityRet("Set", component.type, component, ret.ent,
                        EntitySet(ret.ent, component), NilComponent)
    /\ UNCHANGED <<view, created, issued, alive, removed, worldVars>>

DoEntityGet(ctype) ==
    /\ ret' = EntityRet("Get", ctype, NilComponent, ret.ent, ret.ent,
                        EntityGet(ret.ent, ctype))
    /\ UNCHANGED <<view, created, issued, alive, removed, worldVars>>

DoEntityRemove(ctype) ==
    /\ ret' = EntityRet("Remove", ctype, NilComponent, ret.ent,
                        EntityRemove(ret.ent, ctype), NilComponent)
    /\ UNCHANGED <<view, created, issued, alive, removed, worldVars>>

NextEntity ==
    \/ \E component \in Components : DoEntityAdd(component)
    \/ \E component \in Components : DoEntitySet(component)
    \/ \E ctype \in Types : DoEntityGet(ctype)
    \/ \E ctype \in Types : DoEntityRemove(ctype)

SpecEntity == InitEntity /\ [][NextEntity]_vars

\* the world that removes systems: AddSystem, AddSystemWithPriority,
\* RemoveSystem, Notify and Update
InitRemove ==
    /\ StoreIdle
    /\ world = WldNew
    /\ wret = WRetNone
    /\ hist = HistNone

\* the systems added, each with its priority
Removable ==
    {[system |-> "HMovementSystem", priority |-> defaultPriority],
     [system |-> "VMovementSystem", priority |-> 100],
     [system |-> "FailureUpdateSystem", priority |-> defaultPriority]}

DoWldAddSystem(sys, priority) ==
    /\ world.lastID < MaxSystems
    /\ world' = WldAddSystemWithPriority(world, sys, priority)
    /\ wret' = [WRetNone EXCEPT !.op = "AddSystem"]
    /\ hist' = [hist EXCEPT !.registered =
                                Append(@, [system |-> sys, priority |-> priority])]
    /\ UNCHANGED storeVars

\* wret.calls tells here which system RemoveSystem was given
DoRemoveSystem(sys) ==
    /\ \E r \in {RemoveSystem(world, sys)} :
          /\ world' = r.world
          /\ wret' = [op |-> "RemoveSystem", err |-> r.err,
                      calls |-> <<[kind |-> "removed", fn |-> sys, id |-> -1,
                                   signal |-> NoSignal]>>]
    /\ UNCHANGED <<hist, storeVars>>

DoWldNotify(event) ==
    /\ sliceSize(world.events) < MaxStored
    /\ world' = WldNotify(world, event)
    /\ wret' = [WRetNone EXCEPT !.op = "Notify"]
    /\ UNCHANGED <<hist, storeVars>>

DoWldUpdate ==
    /\ \E r \in {WldUpdate(world)} :
          /\ world' = r.world
          /\ wret' = [op |-> "Update", err |-> r.err, calls |-> r.calls]
    /\ UNCHANGED <<hist, storeVars>>

NextRemove ==
    \/ \E s \in Removable : DoWldAddSystem(s.system, s.priority)
    \/ \E s \in Removable : DoRemoveSystem(s.system)
    \/ DoWldNotify(NewSignal("resetEvent"))
    \/ DoWldUpdate

SpecRemove == InitRemove /\ [][NextRemove]_vars

\* the world with resources: AddEntity, AddResource and RemoveResource
InitRes ==
    /\ StoreIdle
    /\ \E resources \in 1..MaxInitCap : world = New(1, 1, 1, resources)
    /\ wret = WRetNone
    /\ hist = HistNone

ResAddEntity(data) == AddEntityStep(data, MaxStored)

DoAddResource(data) ==
    /\ Running
    /\ world.resources.lastID < MaxID
    /\ \E r \in {AddResource(world, view, data)} :
          /\ world' = r.world
          /\ view' = r.view
          /\ ret' = [ret EXCEPT !.panic = r.panic]
    /\ wret' = [WRetNone EXCEPT !.op = "AddResource"]
    /\ UNCHANGED <<hist, created, issued, alive, removed>>

DoRemoveResource(id) ==
    /\ Running
    /\ \E r \in {RemoveResource(world, id)} :
          /\ world' = r.world
          /\ wret' = [WRetNone EXCEPT !.op = "RemoveResource", !.err = r.err]
    /\ UNCHANGED <<hist, storeVars>>

NextRes ==
    \/ \E data \in {{"Pos"}, {"Pos", "Vel"}} : ResAddEntity(data)
    \/ \E data \in {{}, {"Vel"}, {"Pos", "Vel"}} : DoAddResource(data)
    \/ \E id \in 1..MaxID : DoRemoveResource(id)

SpecRes == InitRes /\ [][NextRes]_vars

\* an iteration taken one call at a time, with Remove called between the calls:
\* ret.data is the filter of the iterator, ret.slot its cursor (-1 once Iterator
\* or Next has returned nil), ret.yield the slots it has stopped at
IterOps == {"Iterator", "Next", "RemoveLive"}

Live == ret.op \in IterOps /\ ret.slot # -1

It == [nil |-> ret.slot = -1, current |-> ret.slot, filter |-> ret.data]

InitIter ==
    /\ StoreIdle
    /\ WorldIdle

IterAddEntity(data) == ~Live /\ AddEntityStep(data, MaxID)

IterRemove(id) == ~Live /\ DoRemove(id)

\* it := v.Iterator(types...)
DoIterator(types) ==
    /\ Running
    /\ ~Live
    /\ \E it \in {Iterator(view, types)} :
          ret' = [RetNone EXCEPT !.op = "Iterator", !.data = types,
                                 !.slot = IF it.nil THEN -1 ELSE it.current,
                                 !.yield = IF it.nil THEN <<>> ELSE <<it.current>>]
    /\ UNCHANGED <<view, created, issued, alive, removed, worldVars>>

\* it = it.Next()
DoNext ==
    /\ Live
    /\ \E it \in {IteratorNext(view, It)} :
          ret' = [ret EXCEPT !.op = "Next",
                             !.slot = IF it.nil THEN -1 ELSE it.current,
                             !.yield = IF it.nil THEN @ ELSE Append(@, it.current)]
    /\ UNCHANGED <<view, created, issued, alive, removed, worldVars>>

\* v.Remove(id) between two calls of Next
DoRemoveLive(id) ==
    /\ Live
    /\ \E r \in {Remove(view, id)} :
          /\ view' = r.view
          /\ ret' = [ret EXCEPT !.op = "RemoveLive", !.id = id, !.err = r.err]
          /\ removed' = IF r.err = ErrNil THEN removed \cup {id} ELSE removed
    /\ alive' = alive \ {id}
    /\ UNCHANGED <<created, issued, worldVars>>

NextIter ==
    \/ \E data \in {{"Pos"}, {"Pos", "Vel"}} : IterAddEntity(data)
    \/ \E id \in 1..MaxID : IterRemove(id)
    \/ \E types \in {{}, {"Vel"}} : DoIterator(types)
    \/ DoNext
    \/ \E id \in 1..MaxID : DoRemoveLive(id)

SpecIter == InitIter /\ [][NextIter]_vars

\* listeners that subscribe a listener while the signals are sent: AddListener
\* is called from outside only while the slice of the subscriptions has a free
\* slot, so that the slice grows for the first time, if at all, in a listener
InitLate ==
    /\ StoreIdle
    /\ \E listeners \in 1..MaxInitCap : world = New(1, listeners, 1, 1)
    /\ wret = WRetNone
    /\ hist = HistNone

LateSubscribe(listener) ==
    /\ sliceSize(world.subscriptions.subscriptions)
           < Len(world.subscriptions.subscriptions.items)
    /\ DoSubscribe(listener, defaultPriority, <<"signal1">>)

NextLate ==
    \/ \E listener \in {"listenerA", "subscribeListener", "subscribeFirstListener"} :
           LateSubscribe(listener)
    \/ DoSignal("signal1")
    \/ DoSubscriptionsUpdate

SpecLate == InitLate /\ [][NextLate]_vars

\* the calls that write to the store: adds with or without a component,
\* removes, Clear and Sort
FrameAddEntity(data) == AddEntityStep(data, MaxID)

FrameRemove(id) == DoRemove(id)

FrameClear == DoClear

FrameSort(less) == DoSort(less)

NextFrame ==
    \/ \E data \in {{}, {"Pos"}} : FrameAddEntity(data)
    \/ \E id \in 0..MaxID : FrameRemove(id)
    \/ FrameClear
    \/ \E less \in LessFns : FrameSort(less)

SpecFrame == Init /\ [][NextFrame]_vars

\* entities emptied through a handle: adds with or without a component, and
\* Remove of a component of the entity an iterator stands at
DoValueRemove(i, ctype) ==
    /\ Running
    /\ i < Len(view.items)
    /\ ~Item(view, i).nil
    /\ ~IsEmpty(Item(view, i))
    /\ view' = ValueRemove(view, i, ctype)
    /\ ret' = [RetNone EXCEPT !.op = "ValueRemove", !.slot = i,
                              !.id = Item(view, i).id, !.data = {ctype}]
    /\ alive' = IF IsEmpty(Item(view', i)) THEN alive \ {Item(view, i).id} ELSE alive
    /\ UNCHANGED <<created, issued, removed, worldVars>>

HandleAddEntity(data) == AddEntityStep(data, MaxLongID)

NextHandle ==
    \/ \E data \in {{}, {"Pos"}} : HandleAddEntity(data)
    \/ \E i \in 0..MaxLongID : DoValueRemove(i, "Pos")

SpecHandle == Init /\ [][NextHandle]_vars

\* a world whose systems fail once: signals from outside and from a system,
\* listeners that return nil, and World.Update
InitRetry ==
    /\ StoreIdle
    /\ world = New(1, 1, 1, 1)
    /\ wret = WRetNone
    /\ hist = HistNone

RetryUpdate ==
    /\ sliceSize(world.subscriptions.signals) <= MaxSignals
    /\ \E r \in {WorldUpdate(world)} :
          /\ world' = r.world
          /\ wret' = [op |-> "Update", err |-> r.err, calls |-> r.calls]
          /\ hist' = [hist EXCEPT !.queued =
                         IF r.err # ErrNil
                         THEN @ \o RaisedBy(SystemCalls(r.calls))
                         ELSE <<>>]
    /\ UNCHANGED storeVars

NextRetry ==
    \/ \E sys \in {"signalSystem", "failOnceSystem"} : DoAddSystem(sys)
    \/ \E f \in {[priority |-> defaultPriority, signals |-> <<"signal1", "signal2">>],
                  [priority |-> 100, signals |-> <<"signal2">>]} :
           DoSubscribe("listenerA", f.priority, f.signals)
    \/ DoWorldSignal("signal2")
    \/ RetryUpdate

SpecRetry == InitRetry /\ [][NextRetry]_vars

\* signals that no listener is subscribed to yet: hist.sent is the signals
\* that were waiting when the last Update began
InitUnheard ==
    /\ StoreIdle
    /\ world = New(1, 1, 1, 1)
    /\ wret = WRetNone
    /\ hist = HistNone

UnheardUpdate ==
    /\ sliceSize(world.subscriptions.signals) <= MaxSignals
    /\ \E r \in {SubscriptionsUpdate(world)} :
          /\ world' = r.world
          /\ wret' = [op |-> "Update", err |-> r.err, calls |-> r.calls]
          /\ hist' = [hist EXCEPT !.queued = <<>>,
                                  !.sent = sliceRefs(world.subscriptions.signals)]
    /\ UNCHANGED storeVars

UnheardSubscribe(listener, type) ==
    /\ world.subscriptions.lastSubscriptionID < MaxListeners
    /\ world' = AddListenerWithPriority(world, listener, defaultPriority, <<type>>)
    /\ wret' = [WRetNone EXCEPT !.op = "Subscribe"]
    /\ UNCHANGED <<hist, storeVars>>

NextUnheard ==
    \/ \E listener \in {"relayListener", "FailureListener"} :
          \E type \in SignalTypes : UnheardSubscribe(listener, type)
    \/ \E type \in SignalTypes : DoSignal(type)
    \/ UnheardUpdate

SpecUnheard == InitUnheard /\ [][NextUnheard]_vars

\* two sparse slices on their own, the incoming signals as the source and
\* toSend as the dest of Replace, with Add and Remove called on both so that
\* either has holes, has grown, or holds more than the other; hist.sent is what
\* the dest held when Replace was called
InitSlices ==
    /\ StoreIdle
    /\ \E source, dest \in 1..MaxInitCap :
          world = [New(1, 1, source, 1) EXCEPT !.subscriptions.toSend = NewSlice(dest)]
    /\ wret = WRetNone
    /\ hist = HistNone

SourceAdd(ref) ==
    /\ sliceSize(world.subscriptions.signals) < MaxSignals
    /\ world' = [world EXCEPT !.subscriptions.signals = sliceAdd(@, ref)]
    /\ wret' = [WRetNone EXCEPT !.op = "Add"]
    /\ hist' = HistNone
    /\ UNCHANGED storeVars

SourceRemove(ref) ==
    /\ \E r \in {sliceRemove(world.subscriptions.signals, ref)} :
          /\ world' = [world EXCEPT !.subscriptions.signals = r.slice]
          /\ wret' = [WRetNone EXCEPT !.op = "Remove", !.err = r.err]
    /\ hist' = HistNone
    /\ UNCHANGED storeVars

DestAdd(ref) ==
    /\ sliceSize(world.subscriptions.toSend) < MaxSignals
    /\ world' = [world EXCEPT !.subscriptions.toSend = sliceAdd(@, ref)]
    /\ wret' = [WRetNone EXCEPT !.op = "Add"]
    /\ hist' = HistNone
    /\ UNCHANGED storeVars

DestRemove(ref) ==
    /\ \E r \in {sliceRemove(world.subscriptions.toSend, ref)} :
          /\ world' = [world EXCEPT !.subscriptions.toSend = r.slice]
          /\ wret' = [WRetNone EXCEPT !.op = "Remove", !.err = r.err]
    /\ hist' = HistNone
    /\ UNCHANGED storeVars

DoReplace ==
    /\ world' = [world EXCEPT !.subscriptions.toSend =
                                  sliceReplace(world.subscriptions.signals, @)]
    /\ wret' = [WRetNone EXCEPT !.op = "Replace"]
    /\ hist' = [hist EXCEPT !.sent = sliceRefs(world.subscriptions.toSend)]
    /\ UNCHANGED storeVars

NextSlices ==
    \/ \E type \in SignalTypes : SourceAdd(NewSignal(type))
    \/ \E type \in SignalTypes : SourceRemove(NewSignal(type))
    \/ \E type \in SignalTypes : DestAdd(NewSignal(type))
    \/ \E type \in SignalTypes : DestRemove(NewSignal(type))
    \/ DoReplace

SpecSlices == InitSlices /\ [][NextSlices]_vars

\* ------------------------------------------------------------- claims --
Slots(v) == 0..(Len(v.items) - 1)

\* the slots holding a non-tombstone entity: non-nil, with at least one component
LiveSlots(v) == {i \in Slots(v) : ~Item(v, i).nil /\ ~IsEmpty(Item(v, i))}

\* the slots holding a tombstone: an entity (non-nil) with no component
Tombstones(v) == {i \in Slots(v) : ~Item(v, i).nil /\ IsEmpty(Item(v, i))}

\* C1: the ids AddEntity returns are strictly increasing in call order, so none
\* repeats, whatever Remove, Clear and Sort calls come in between and whether or
\* not the new entity reuses a slot
IdsStrictlyIncreasing ==
    /\ \A i, j \in DOMAIN issued : i < j => issued[i] < issued[j]
    /\ (ret.op = "AddEntity" /\ ~ret.panic) => ret.id = issued[Len(issued)]

\* an AddEntity has just reused the tombstone left by an entity Remove removed
IdsStrictlyIncreasingWitness ==
    /\ ret.op = "AddEntity"
    /\ ret.reused
    /\ Len(issued) >= 2
    /\ \E id \in removed : LookupGet(view, id) = ret.slot

\* C2: Get(id) returns EntityNotFound and no entity when id was never issued
\* (0 included) or has been removed
GetOfAbsentIdFails ==
    (ret.op = "Get" /\ (ret.id \notin Range(issued) \/ ret.id \in removed))
        => /\ ~ret.panic
           /\ ret.err = ErrEntityNotFound
           /\ ret.ent.nil

\* C3: after a mutating call has returned, Get(id) of every live id is the
\* entity whose ID() is id
LookupAgreesWithSlots ==
    (ret.op \in {"AddEntity", "Remove", "Clear", "Sort"} /\ ~ret.panic)
        => \A id \in alive :
              /\ ~Get(view, id).panic
              /\ ~Get(view, id).ent.nil
              /\ Get(view, id).ent.id = id

\* C4: Size() is the number of slots holding a non-tombstone entity
SizeCountsLiveSlots == Size(view) = Cardinality(LiveSlots(view))

\* C5: AddEntity never fails: no out-of-range slot access, the id returned is
\* new, and the new entity sits in exactly one slot
AddEntityNeverFails ==
    ret.op = "AddEntity"
        => /\ ~ret.panic
           /\ \A i \in 1..(Len(issued) - 1) : issued[i] # ret.id
           /\ Cardinality({i \in Slots(view) :
                              /\ ~Item(view, i).nil
                              /\ Item(view, i).id = ret.id
                              /\ Item(view, i).comps = ret.data}) = 1

\* C6: Remove of a live id succeeds and decreases Size by exactly one; Remove
\* of an id an earlier Remove has removed returns EntityNotFound
RemoveTwice ==
    /\ \A id \in alive :
          /\ Remove(view, id).err = ErrNil
          /\ Size(Remove(view, id).view) = Size(view) - 1
    /\ \A id \in removed : Remove(view, id).err = ErrEntityNotFound

\* the second Remove of an id has just returned EntityNotFound, other entities
\* being stored
RemoveTwiceWitness ==
    /\ ret.op = "Remove"
    /\ ret.err = ErrEntityNotFound
    /\ ret.id \in removed
    /\ alive # {}

\* C7: an iteration over a store that is not mutated meanwhile visits exactly
\* the slots of the live entities holding every type of the filter, each once,
\* in ascending slot order; with no type, all live entities
IteratorYieldsMatching ==
    ret.op = "Iterate"
        => /\ \A i, j \in DOMAIN ret.yield : i < j => ret.yield[i] < ret.yield[j]
           /\ Range(ret.yield) =
                 {i \in LiveSlots(view) : ret.data \subseteq Item(view, i).comps}

\* an iteration with a filter has visited an entity, skipped a live entity that
\* lacks a type of the filter and skipped a tombstone before the last one visited
IteratorYieldsMatchingWitness ==
    /\ ret.op = "Iterate"
    /\ ret.data # {}
    /\ Len(ret.yield) >= 1
    /\ \E i \in LiveSlots(view) : ~(ret.data \subseteq Item(view, i).comps)
    /\ \E i \in Tombstones(view) : i < ret.yield[Len(ret.yield)]

\* C8: the AddEntity that follows a Remove puts the new entity in a tombstoned
\* slot, in place, with the lookup pointing the new id at that slot and the
\* capacity unchanged; and the capacity changes only when no slot is a
\* tombstone or never used
SlotReuseBeforeGrowth ==
    [][ret'.op = "AddEntity"
          => /\ (ret.op = "Remove" /\ ret.err = ErrNil)
                   => /\ ret'.slot \in Tombstones(view)
                      /\ ret'.reused
                      /\ Item(view', ret'.slot).id = ret'.id
                      /\ LookupGet(view', ret'.id) = ret'.slot
                      /\ view'.capacity = view.capacity
             /\ view'.capacity # view.capacity => FreeSlots(view) = {}]_vars

\* the capacity after a growth: twice the capacity the store was created
\* with the first time, (capacity / 4) + 1 more every later time
GrowthRule ==
    [][view'.capacity # view.capacity
          => IF view.capacity = created
             THEN view'.capacity = 2 * created
             ELSE view'.capacity = view.capacity + (view.capacity \div 4) + 1]_vars

\* C9 as stated: with no removal so far, the capacity is c up to the c-th
\* AddEntity call and 2c at the (c+1)-th, and later growths follow the rule
GrowthSequenceOfCalls ==
    /\ [](removed = {}
            => /\ view.lastID <= created => view.capacity = created
               /\ view.lastID = created + 1 => view.capacity = 2 * created)
    /\ GrowthRule

\* C9, amended: the same when every add so far carried at least one component
\* (every id returned is still live)
GrowthSequence ==
    /\ [](alive = Range(issued)
            => /\ view.lastID <= created => view.capacity = created
               /\ view.lastID = created + 1 => view.capacity = 2 * created)
    /\ GrowthRule

\* every add carried a component, the doubled store filled up, and the add
\* after that has grown it by (2c / 4) + 1 >= 2 slots and sits in slot 2c
GrowthSequenceWitness ==
    /\ created >= 1
    /\ alive = Range(issued)
    /\ ret.op = "AddEntity"
    /\ ret.slot = 2 * created
    /\ (2 * created) \div 4 >= 1
    /\ view.capacity = 2 * created + ((2 * created) \div 4) + 1

\* C10: right after Clear, Size() is 0, an iteration visits nothing, and an
\* AddEntity succeeds, lands where it lands on a fresh store of that capacity
\* and returns an id above every id issued before
ClearThenAdd ==
    ret.op = "Clear"
        => /\ Size(view) = 0
           /\ \A types \in SUBSET Types : Walk(view, Iterator(view, types)) = <<>>
           /\ \A data \in SUBSET Types :
                 /\ ~AddEntity(view, data).panic
                 /\ AddEntity(view, data).slot
                       = AddEntity(NewView(view.capacity), data).slot
                 /\ \A i \in DOMAIN issued : issued[i] < AddEntity(view, data).id

\* every live slot comes before every tombstone and every never-used slot
OccupiedFirst(v) ==
    \A i \in LiveSlots(v) : \A j \in Slots(v) \ LiveSlots(v) : i < j

\* C11: after Sort(less), every occupied slot precedes every tombstone and
\* every never-used slot, whatever less is (an order or not) and whatever the
\* layout of the slots was before
TombstonesSortLast ==
    /\ ret.op = "Sort" => OccupiedFirst(view)
    /\ \A less \in LessFns \cup OddLessFns : OccupiedFirst(Sort(view, less))

\* a store Sort has work to do on: a tombstone sits before a live entity, and
\* a never-used slot is left
TombstonesSortLastWitness ==
    /\ \E i \in Tombstones(view) : \E j \in LiveSlots(view) : i < j
    /\ \E i \in Slots(view) : Item(view, i).nil
    /\ ~OccupiedFirst(view)

\* the ids of the entities an iteration over the whole store yields, in order
YieldedIds(v) ==
    LET w == Walk(v, Iterator(v, {})) IN [k \in DOMAIN w |-> Item(v, w[k]).id]

\* a sequence of ids is in the order of a less function on ids
InOrder(ids, less) ==
    \A i, j \in DOMAIN ids :
        i < j => IF less = "idAsc" THEN ids[i] < ids[j] ELSE ids[i] > ids[j]

\* C12: after Sort(less) with a strict total order an iteration yields the live
\* entities, all of them, in ascending order of less; and a second Sort with
\* another order yields them in that other order
SortOrdersIteration ==
    \A less \in LessFns : \A sorted \in {Sort(view, less)} :
        /\ \A ids \in {YieldedIds(sorted)} :
               /\ InOrder(ids, less)
               /\ Range(ids) = alive
               /\ Len(ids) = Cardinality(alive)
        /\ \A other \in LessFns : \A ids \in {YieldedIds(Sort(sorted, other))} :
               /\ InOrder(ids, other)
               /\ Range(ids) = alive
               /\ Len(ids) = Cardinality(alive)

\* a store of three live entities a Sort has just put in descending order of
\* id: the Sort by ascending id that follows has to move every one of them
SortOrdersIterationWitness ==
    /\ ret.op = "Sort"
    /\ Cardinality(alive) = 3
    /\ YieldedIds(view) = <<3, 2, 1>>

\* the ids of the systems or listeners a sequence of invocations went to
CalledIds(calls) == [k \in DOMAIN calls |-> calls[k].id]

\* of two Register (or Subscribe) calls, the i-th and the j-th made, the i-th
\* comes first: its priority is higher, or the same and it was made earlier
GoesBefore(made, i, j) ==
    \/ made[i].priority > made[j].priority
    \/ made[i].priority = made[j].priority /\ i < j

\* the registrations held by the systems
Registrations(w) ==
    {w.systems.registrations.items[i].ref :
        i \in {k \in DOMAIN w.systems.registrations.items :
                   w.systems.registrations.items[k].valid}}

\* C13: whatever Register calls were made, an Update in which no system fails
\* invokes every registered system exactly once, a system of higher priority
\* before one of lower priority and, of two systems of the same priority, the
\* one registered earlier first; and of two registrations one always compares
\* less than the other
SystemsRunInPriorityOrder ==
    /\ \A r \in {SystemsUpdate(world)} :
          r.err = ErrNil
              => /\ Len(r.calls) = Len(hist.registered)
                 /\ Range(CalledIds(r.calls)) = DOMAIN hist.registered
                 /\ \A k \in DOMAIN r.calls :
                        /\ r.calls[k].kind = "system"
                        /\ r.calls[k].fn = hist.registered[r.calls[k].id].system
                 /\ \A i, j \in DOMAIN r.calls :
                        i < j => GoesBefore(hist.registered, r.calls[i].id, r.calls[j].id)
    /\ Cardinality(Registrations(world)) = Len(hist.registered)
    /\ \A a, b \in Registrations(world) :
          a # b => sortSystemByPriority(a, b) # sortSystemByPriority(b, a)

\* an Update has run three systems: the one registered last, of priority 100,
\* first, then the two of priority 0 in the order they were registered
SystemsRunInPriorityOrderWitness ==
    /\ wret.op = "Update"
    /\ wret.err = ErrNil
    /\ CalledIds(wret.calls) = <<3, 1, 2>>
    /\ hist.registered[1].priority = hist.registered[2].priority
    /\ hist.registered[3].priority > hist.registered[1].priority

\* C14: when a system returns an error, Systems.Update invokes no system after
\* it and returns that error; the systems before it in the order have all run
\* and what they wrote stays written
SystemsFailFast ==
    \A r \in {SystemsUpdate(world)} :
        /\ \A k \in DOMAIN r.calls :
               Returns(r.calls[k].fn) # ErrNil
                   => /\ k = Len(r.calls)
                      /\ r.err = Returns(r.calls[k].fn)
        /\ (\E k \in DOMAIN hist.registered : Returns(hist.registered[k].system) # ErrNil)
               => r.err = errFailure
        /\ \A i \in DOMAIN hist.registered :
               i \notin Range(CalledIds(r.calls))
                   => \E k \in DOMAIN r.calls :
                         /\ Returns(r.calls[k].fn) # ErrNil
                         /\ GoesBefore(hist.registered, r.calls[k].id, i)
        /\ r.world.x = world.x + Cardinality({k \in DOMAIN r.calls :
                                                  r.calls[k].fn = "HMovementSystem"})
        /\ r.world.systems = world.systems

\* an Update has run a movement system and then a system that failed, has
\* returned the failure without running the third system, and the entity has
\* moved
SystemsFailFastWitness ==
    /\ wret.op = "Update"
    /\ wret.err = errFailure
    /\ Len(hist.registered) = 3
    /\ Len(wret.calls) = 2
    /\ wret.calls[1].fn = "HMovementSystem"
    /\ wret.calls[2].fn = "FailureSystem"
    /\ world.x = 1

\* the Subscribe calls, by number, whose type list names a type
SubscribedTo(made, type) == {s \in DOMAIN made : type \in Range(made[s].signals)}

\* the members of a set of Register (or Subscribe) calls, the one that goes
\* before the others first
OrderOf(made, S) ==
    CHOOSE seq \in [1..Cardinality(S) -> S] :
        \A i, j \in 1..Cardinality(S) : i < j => GoesBefore(made, seq[i], seq[j])

\* the deliveries owed for a batch of signals: signal by signal in the order
\* of the batch, and for each signal the listeners subscribed to its type in
\* their order
RECURSIVE Deliveries(_, _)
Deliveries(batch, made) ==
    IF batch = <<>> THEN <<>>
    ELSE LET o == OrderOf(made, SubscribedTo(made, Head(batch).type))
         IN  [k \in DOMAIN o |-> [id |-> o[k], signal |-> Head(batch)]]
             \o Deliveries(Tail(batch), made)

\* the deliveries made by a sequence of invocations of listeners
Delivered(calls) == [k \in DOMAIN calls |-> [id |-> calls[k].id, signal |-> calls[k].signal]]

IsPrefix(a, b) == Len(a) <= Len(b) /\ \A k \in DOMAIN a : a[k] = b[k]

\* how many of the invocations went to a listener, for a signal of a type
TimesCalled(calls, id, type) ==
    Cardinality({k \in DOMAIN calls :
                    /\ calls[k].kind = "listener"
                    /\ calls[k].id = id
                    /\ calls[k].signal.type = type})

\* how many signals of a sequence are of a type
TimesIn(batch, type) == Cardinality({p \in DOMAIN batch : batch[p].type = type})

\* the invocations that returned an error
Failed(calls) == {k \in DOMAIN calls : Returns(calls[k].fn) # ErrNil}

\* the position after a sequence of invocations, from the position x
RECURSIVE XAfter(_, _)
XAfter(calls, x) ==
    IF calls = <<>> THEN x ELSE XAfter(Tail(calls), Moves(Head(calls).fn, x))

\* every invocation of a system comes before every invocation of a listener
SystemsFirst(calls) ==
    \A i, j \in DOMAIN calls :
        (calls[i].kind = "system" /\ calls[j].kind = "listener") => i < j

\* C15: World.Update runs the systems first, and sends the signals only if no
\* system failed: when one fails, no listener is invoked in that call, the
\* error of that system is returned, and the signals stay where they were
UpdateSkipsDispatchOnFailure ==
    \A r \in {WorldUpdate(world)} :
        /\ SystemsFirst(r.calls)
        /\ \A k \in Failed(r.calls) :
               r.calls[k].kind = "system"
                   => /\ ListenerCalls(r.calls) = <<>>
                      /\ r.err = Returns(r.calls[k].fn)
                      /\ sliceRefs(r.world.subscriptions.signals)
                            = hist.queued \o RaisedBy(r.calls)
                      /\ r.world.subscriptions.toSend = world.subscriptions.toSend
        /\ (/\ Failed(SystemCalls(r.calls)) = {}
            /\ hist.queued # <<>>
            /\ SubscribedTo(hist.subscribed, hist.queued[1].type) # {})
               => ListenerCalls(r.calls) # <<>>

\* an Update has run a system that raised a signal and then one that failed,
\* and has returned the failure; a listener is subscribed to the signal, which
\* is still waiting
UpdateSkipsDispatchOnFailureWitness ==
    /\ wret.op = "Update"
    /\ wret.err = errFailure
    /\ Len(wret.calls) = 2
    /\ wret.calls[1].fn = "MovementSystem"
    /\ wret.calls[2].fn = "FailureSystem"
    /\ SubscribedTo(hist.subscribed, "signal1") # {}
    /\ hist.queued # <<>>

\* C16: when no system and no listener fails, the signals the systems raise
\* during a World.Update are delivered within that call, to every listener
\* subscribed to their type, together with the signals that were waiting; and
\* no listener is invoked before the last system has run
SystemSignalsSentInSameUpdate ==
    \A r \in {WorldUpdate(world)} :
        /\ SystemsFirst(r.calls)
        /\ r.err = ErrNil
               => /\ \A s \in DOMAIN hist.subscribed : \A type \in SignalTypes :
                         type \in Range(hist.subscribed[s].signals)
                             => TimesCalled(r.calls, s, type)
                                   = TimesIn(hist.queued \o RaisedBy(SystemCalls(r.calls)),
                                             type)
                  /\ Len(SystemCalls(r.calls)) = Len(hist.registered)
                  /\ sliceRefs(r.world.subscriptions.signals) = <<>>

\* an Update has run two systems that raised a signal each, no signal waiting
\* before, and then has delivered both signals to both listeners
SystemSignalsSentInSameUpdateWitness ==
    /\ wret.op = "Update"
    /\ wret.err = ErrNil
    /\ Len(wret.calls) = 6
    /\ wret.calls[1].fn = "MovementSystem"
    /\ wret.calls[2].fn = "MovementSystem"
    /\ \A k \in 3..6 : wret.calls[k].kind = "listener"
    /\ hist.queued = <<>>

\* C17: a signal a listener raises during a dispatch pass is not delivered in
\* that Update call: the pass makes no more deliveries than the signals
\* waiting at its start are owed, and the signals raised are waiting after it.
\* The next Update call delivers them
ListenerSignalsWaitForNextUpdate ==
    \A r \in {SubscriptionsUpdate(world)} :
        /\ IsPrefix(Delivered(r.calls), Deliveries(hist.queued, hist.subscribed))
        /\ hist.queued # <<>>
               => sliceRefs(r.world.subscriptions.signals) = RaisedBy(r.calls)
        /\ \A n \in {SubscriptionsUpdate(r.world)} :
               /\ IsPrefix(Delivered(n.calls),
                           Deliveries(sliceRefs(r.world.subscriptions.signals),
                                      hist.subscribed))
               /\ n.err = ErrNil
                      => Delivered(n.calls)
                            = Deliveries(IF hist.queued # <<>>
                                         THEN RaisedBy(r.calls)
                                         ELSE <<>>,
                                         hist.subscribed)

\* an Update has delivered a signal to a listener that raised it again, and to
\* nobody after that; the signal raised is waiting for the next Update
ListenerSignalsWaitForNextUpdateWitness ==
    /\ wret.op = "Update"
    /\ wret.err = ErrNil
    /\ Len(wret.calls) = 1
    /\ wret.calls[1].fn = "relayListener"
    /\ hist.queued = <<wret.calls[1].signal>>
    /\ sliceSize(world.subscriptions.signals) = 1

\* C18: a dispatch pass delivers the signals in the order they were queued,
\* each to the listeners subscribed to its type in the order of priority
\* (higher first) and, among equal priorities, of subscription; every delivery
\* of a signal comes before every delivery of a signal queued after it
DeliveryOrder ==
    \A r \in {SubscriptionsUpdate(world)} :
        /\ r.err = ErrNil
               => Delivered(r.calls) = Deliveries(hist.queued, hist.subscribed)
        /\ r.err # ErrNil
               => /\ IsPrefix(Delivered(r.calls), Deliveries(hist.queued, hist.subscribed))
                  /\ r.calls # <<>>
        /\ \A k \in DOMAIN r.calls : r.calls[k].kind = "listener"

\* an Update has delivered two signals of different types, the first to two
\* listeners: to the one subscribed last, of the higher priority, first
DeliveryOrderWitness ==
    /\ wret.op = "Update"
    /\ wret.err = ErrNil
    /\ Len(wret.calls) = 3
    /\ CalledIds(wret.calls) = <<2, 1, 1>>
    /\ wret.calls[1].signal = wret.calls[2].signal
    /\ wret.calls[2].signal # wret.calls[3].signal

\* C19: a listener is invoked for a signal of a dispatch pass if and only if
\* the type of the signal is among the types it subscribed to, and then once
\* for that signal, also when its list names the type more than once
TypeFilter ==
    \A r \in {SubscriptionsUpdate(world)} :
        \A s \in DOMAIN hist.subscribed : \A type \in SignalTypes :
            /\ type \notin Range(hist.subscribed[s].signals)
                   => TimesCalled(r.calls, s, type) = 0
            /\ TimesCalled(r.calls, s, type) <= TimesIn(hist.queued, type)
            /\ (r.err = ErrNil /\ type \in Range(hist.subscribed[s].signals))
                   => TimesCalled(r.calls, s, type) = TimesIn(hist.queued, type)

\* an Update has delivered a signal once to a listener whose list names the
\* type of the signal twice, and not to a listener subscribed to another type
TypeFilterWitness ==
    /\ wret.op = "Update"
    /\ wret.err = ErrNil
    /\ Len(hist.subscribed) = 2
    /\ Len(wret.calls) = 1
    /\ wret.calls[1].signal.type = "signal2"
    /\ Cardinality({k \in DOMAIN hist.subscribed[wret.calls[1].id].signals :
                        hist.subscribed[wret.calls[1].id].signals[k] = "signal2"}) = 2

\* C20: when a listener returns an error, no other listener is invoked for
\* that signal and no later signal of the batch is delivered in that Update
\* call, the error is what World.Update returns, and what the systems of the
\* call wrote stays written
ListenersFailFast ==
    \A r \in {WorldUpdate(world)} :
        /\ \A k \in Failed(r.calls) :
               /\ k = Len(r.calls)
               /\ r.err = Returns(r.calls[k].fn)
        /\ Failed(SystemCalls(r.calls)) = {}
               => /\ IsPrefix(Delivered(ListenerCalls(r.calls)),
                              Deliveries(hist.queued \o RaisedBy(SystemCalls(r.calls)),
                                         hist.subscribed))
                  /\ \/ Failed(r.calls) # {}
                     \/ Delivered(ListenerCalls(r.calls))
                           = Deliveries(hist.queued \o RaisedBy(SystemCalls(r.calls)),
                                        hist.subscribed)
        /\ r.world.x = XAfter(r.calls, world.x)

\* an Update has run two systems that moved the entity and raised a signal
\* each, has delivered the first signal to a listener that failed, and has
\* returned the failure: the other listener was not invoked, the second signal
\* was not delivered, and the entity has moved twice
ListenersFailFastWitness ==
    /\ wret.op = "Update"
    /\ wret.err = errFailure
    /\ Len(hist.subscribed) = 2
    /\ Len(wret.calls) = 3
    /\ wret.calls[1].fn = "MovementSystem"
    /\ wret.calls[2].fn = "MovementSystem"
    /\ wret.calls[3].fn = "FailureListener"
    /\ world.x = 2


\* the signals that may be queued between two Update calls: none, or one
Between == {<<>>} \cup {<<NewSignal(type)>> : type \in SignalTypes}

\* C21 as stated: when a listener fails, toSend is left holding the batch, and
\* the next Update call delivers that batch again, and after it the signals
\* queued since
FailedBatchRedelivered ==
    \A r \in {SubscriptionsUpdate(world)} :
        r.err # ErrNil
            => /\ sliceRefs(r.world.subscriptions.toSend) = hist.queued
               /\ \A more \in Between :
                  \A n \in {SubscriptionsUpdate(SignalAll(r.world, more, 1))} :
                      /\ n.calls # <<>>
                      /\ IsPrefix(Delivered(n.calls),
                                  Deliveries(hist.queued \o RaisedBy(r.calls) \o more,
                                             hist.subscribed))

\* C21: when a listener fails, toSend is left holding the batch, and the batch
\* is not delivered again: the next Update call invokes no listener if no
\* signal was queued since the pass began, and else delivers the signals queued
\* since, and those only; toSend then holds no signal of the failed pass
FailedBatchDropped ==
    \A r \in {SubscriptionsUpdate(world)} :
        r.err # ErrNil
            => /\ sliceRefs(r.world.subscriptions.toSend) = hist.queued
               /\ \A more \in Between :
                  \A n \in {SubscriptionsUpdate(SignalAll(r.world, more, 1))} :
                      /\ IsPrefix(Delivered(n.calls),
                                  Deliveries(RaisedBy(r.calls) \o more, hist.subscribed))
                      /\ n.err = ErrNil
                             => Delivered(n.calls)
                                   = Deliveries(RaisedBy(r.calls) \o more, hist.subscribed)
                      /\ RaisedBy(r.calls) \o more = <<>>
                             => /\ n.calls = <<>>
                                /\ n.world = r.world
                      /\ RaisedBy(r.calls) \o more # <<>>
                             => sliceRefs(n.world.subscriptions.toSend)
                                   \in {<<>>, RaisedBy(r.calls) \o more}

\* an Update has failed on the second of two signals that were waiting, having
\* delivered the first, and nothing was queued since: toSend holds both
FailedBatchDroppedWitness ==
    /\ wret.op = "Update"
    /\ wret.err = errFailure
    /\ Len(wret.calls) >= 2
    /\ wret.calls[1].signal # wret.calls[Len(wret.calls)].signal
    /\ hist.queued = <<>>
    /\ Len(sliceRefs(world.subscriptions.toSend)) = 2


\* C23: Signal invokes no listener; and when no listener fails, the first
\* Update after it invokes each subscription once for every waiting signal of
\* a type it names, and no later Update invokes anyone for those signals: the
\* Update after that one delivers the signals the listeners raised and no other
QueuedSignalsDeliveredOnce ==
    /\ wret.op = "Signal" => wret.calls = <<>>
    /\ \A type \in SignalTypes :
           /\ Signal(world.subscriptions, NewSignal(type)).subscriptions
                 = world.subscriptions.subscriptions
           /\ Signal(world.subscriptions, NewSignal(type)).toSend
                 = world.subscriptions.toSend
    /\ \A r \in {SubscriptionsUpdate(world)} :
           r.err = ErrNil
               => /\ \A s \in DOMAIN hist.subscribed : \A type \in SignalTypes :
                         TimesCalled(r.calls, s, type)
                            = IF type \in Range(hist.subscribed[s].signals)
                              THEN TimesIn(hist.queued, type)
                              ELSE 0
                  /\ \A n \in {SubscriptionsUpdate(r.world)} :
                         /\ RaisedBy(r.calls) = <<>> => n.calls = <<>>
                         /\ \A s \in DOMAIN hist.subscribed : \A type \in SignalTypes :
                                TimesCalled(n.calls, s, type)
                                    <= TimesIn(RaisedBy(r.calls), type)

\* two listeners are subscribed and an Update has returned no error after
\* invoking one of them twice, for two signals of a type; no signal is waiting
QueuedSignalsDeliveredOnceWitness ==
    /\ wret.op = "Update"
    /\ wret.err = ErrNil
    /\ hist.queued = <<>>
    /\ Len(hist.subscribed) = 2
    /\ \E s \in DOMAIN hist.subscribed : \E type \in SignalTypes :
           TimesCalled(wret.calls, s, type) = 2


\* the world with its subscriptions replaced
WithSubscriptions(w, subs) == [w EXCEPT !.subscriptions = subs]

\* C24: Subscriptions.Clear leaves no subscription, no waiting signal and no
\* signal in toSend, whatever was waiting or left over from a failed pass; the
\* Update that follows invokes no listener, nor does one that follows a Signal
SubscriptionsClearDropsAll ==
    \A c \in {SubscriptionsClear(world.subscriptions)} :
        /\ sliceRefs(c.subscriptions) = <<>>
        /\ sliceRefs(c.signals) = <<>>
        /\ sliceRefs(c.toSend) = <<>>
        /\ sliceSize(c.subscriptions) = 0
        /\ sliceSize(c.signals) = 0
        /\ sliceSize(c.toSend) = 0
        /\ \A more \in Between :
           \A n \in {SubscriptionsUpdate(SignalAll(WithSubscriptions(world, c), more, 1))} :
               /\ n.calls = <<>>
               /\ n.err = ErrNil

\* Clear was called with a listener subscribed and a signal waiting, and has
\* left the subscriptions with no item
SubscriptionsClearDropsAllWitness ==
    /\ wret.op = "Clear"
    /\ hist.subscribed # <<>>
    /\ hist.queued # <<>>
    /\ SubscribedTo(hist.subscribed, hist.queued[1].type) # {}
    /\ sliceRefs(world.subscriptions.subscriptions) = <<>>
    /\ sliceRefs(world.subscriptions.signals) = <<>>

\* C25: after World.Clear the View has size 0 and yields no entity, no system is
\* registered, no listener subscribed and no signal waiting; the Update that
\* follows invokes nothing and returns no error
WorldClearEmptiesAll ==
    /\ \A w \in {WorldClear(world)} : \A v \in {Clear(view)} :
           /\ Size(v) = 0
           /\ \A types \in SUBSET Types : Walk(v, Iterator(v, types)) = <<>>
           /\ sliceSize(w.systems.registrations) = 0
           /\ sliceRefs(w.systems.registrations) = <<>>
           /\ sliceSize(w.subscriptions.subscriptions) = 0
           /\ sliceSize(w.subscriptions.signals) = 0
           /\ \A n \in {WorldUpdate(w)} :
                  /\ n.calls = <<>>
                  /\ n.err = ErrNil
                  /\ n.world = w
    /\ (wret.op = "Clear" /\ ret.op = "Clear")
           => /\ Size(view) = 0
              /\ \A n \in {WorldUpdate(world)} : n.calls = <<>>

\* World.Clear was called after an entity was added, a system registered, a
\* listener subscribed and a signal queued
WorldClearEmptiesAllWitness ==
    /\ wret.op = "Clear"
    /\ ret.op = "Clear"
    /\ issued # <<>>
    /\ hist.registered # <<>>
    /\ hist.subscribed # <<>>
    /\ hist.queued # <<>>
    /\ Size(view) = 0


\* the invocations of systems a sequence of Register calls asks for: every
\* system, by priority and then by registration
ExpectedSystems(made) ==
    LET o == OrderOf(made, DOMAIN made)
    IN  [k \in DOMAIN o |->
            [kind |-> "system", fn |-> made[o[k]].system, id |-> o[k], signal |-> NoSignal]]

\* the invocations of listeners a batch of signals and a sequence of Subscribe
\* calls ask for
ExpectedListeners(batch, made) ==
    LET d == Deliveries(batch, made)
    IN  [k \in DOMAIN d |->
            [kind |-> "listener", fn |-> made[d[k].id].listener, id |-> d[k].id,
             signal |-> d[k].signal]]

\* a sequence of invocations up to the first one that returns an error
RECURSIVE UpToFailure(_)
UpToFailure(calls) ==
    IF calls = <<>> THEN <<>>
    ELSE IF Returns(Head(calls).fn) # ErrNil
         THEN <<Head(calls)>>
         ELSE <<Head(calls)>> \o UpToFailure(Tail(calls))

\* the invocations of an Update as the calls made so far alone decide them
ExpectedCalls(h) ==
    LET systems == ExpectedSystems(h.registered)
    IN  UpToFailure(systems
                    \o ExpectedListeners(h.queued \o RaisedBy(systems), h.subscribed))

\* C26: the invocations an Update makes, and their order, are decided by the
\* Register, Subscribe and Signal calls made so far (which systems and
\* listeners, with which priorities, in which sequence; which signals are
\* waiting) and by nothing else: not by the capacities the world was created
\* with, nor by where its slices hold their items. Two worlds with the same
\* calls behind them make the same invocations in the same order
UpdateOrderDecidedByHistory ==
    \A r \in {WorldUpdate(world)} :
        /\ r.calls = ExpectedCalls(hist)
        /\ r.err = (IF Failed(r.calls) = {} THEN ErrNil ELSE errFailure)

\* a world created with capacity 2 has run an Update over two systems and two
\* listeners that were added lower priority first: the higher ones went first
UpdateOrderDecidedByHistoryWitness ==
    /\ wret.op = "Update"
    /\ world.systems.registrations.grow = 2
    /\ Len(wret.calls) = 4
    /\ CalledIds(wret.calls) = <<2, 1, 2, 1>>
    /\ wret.err = errFailure


\* the components an entity holds
Held(ent) == {ent.components[t] : t \in DOMAIN ent.components}

\* C27: an entity holds one component per type at most. Add and Set of a
\* component give an entity from which Get of its type returns that component,
\* whether or not a component of the type was held; the components of the other
\* types and the id are as before, and the number of components held is as
\* before if the type was held and one more if it was not
AddReplacesSameType ==
    /\ \A c \in Held(ret.ent) : \A d \in Held(ret.ent) : c.type = d.type => c = d
    /\ \A t \in DOMAIN ret.ent.components : ret.ent.components[t].type = t
    /\ \A component \in Components :
       \A after \in {EntityAdd(ret.ent, component), EntitySet(ret.ent, component)} :
           /\ EntityGet(after, component.type) = component
           /\ after.id = ret.ent.id
           /\ \A t \in Types \ {component.type} :
                  EntityGet(after, t) = EntityGet(ret.ent, t)
           /\ DOMAIN after.components = DOMAIN ret.ent.components \cup {component.type}
           /\ Cardinality(Held(after))
                 = IF component.type \in DOMAIN ret.ent.components
                   THEN Cardinality(Held(ret.ent))
                   ELSE Cardinality(Held(ret.ent)) + 1
    /\ ret.op \in {"Add", "Set"}
           => /\ EntityGet(ret.ent, ret.type) = ret.component
              /\ ret.ent.id = ret.was.id
              /\ \A t \in Types \ {ret.type} :
                     EntityGet(ret.ent, t) = EntityGet(ret.was, t)

\* Set was called with a component of a type the entity held with another
\* value, while it held a component of the other type too
AddReplacesSameTypeWitness ==
    /\ ret.op = "Set"
    /\ DOMAIN ret.was.components = Types
    /\ ret.was.components[ret.type] # ret.component
    /\ ret.ent.components[ret.type] = ret.component


\* the systems a world holds, and the priority list without those of a system
Holds(wld, sys) == \E k \in DOMAIN sliceRefs(wld.systems) : sliceRefs(wld.systems)[k].system = sys

RECURSIVE Without(_, _)
Without(pl, sys) ==
    IF pl = <<>> THEN <<>>
    ELSE IF Head(pl).system = sys
         THEN Without(Tail(pl), sys)
         ELSE <<Head(pl)>> \o Without(Tail(pl), sys)

\* C28 as stated: RemoveSystem of a system the world holds returns nil, the
\* Update calls that follow do not invoke that system, and invoke the other
\* systems in the order they had; RemoveSystem of a system the world does not
\* hold (never added, or removed already) returns ErrItemNotFound and changes
\* nothing
RemovedSystemNotInvoked ==
    \A s \in Removable : \A r \in {RemoveSystem(world, s.system)} :
        /\ Holds(world, s.system)
               => /\ r.err = ErrNil
                  /\ \A n \in {WldUpdate(r.world)} :
                         \A k \in DOMAIN n.calls : n.calls[k].fn # s.system
                  /\ getPriorityList(r.world) = Without(getPriorityList(world), s.system)
        /\ ~Holds(world, s.system)
               => /\ r.err = ErrItemNotFound
                  /\ r.world = world


\* the ids of the resources that hold every type of a list
Holding(v, types) ==
    {Item(v, i).id : i \in {k \in LiveSlots(v) : types \subseteq Item(v, k).comps}}

RemovalKeepsIteration ==
    ret.op \in IterOps
        => /\ \A i, j \in DOMAIN ret.yield : i < j => ret.yield[i] < ret.yield[j]
           /\ (ret.op \in {"Iterator", "Next"} /\ ret.slot # -1)
                 => /\ ret.slot \in LiveSlots(view)
                    /\ ret.data \subseteq Item(view, ret.slot).comps
                    /\ ret.slot = ret.yield[Len(ret.yield)]
           /\ \A i \in LiveSlots(view) :
                  ret.data \subseteq Item(view, i).comps
                      => \/ i \in Range(ret.yield)
                         \/ ret.slot # -1 /\ i > ret.slot

\* Next has stopped at an entity after an entity between the cursor and it was
\* removed during the iteration
RemovalKeepsIterationWitness ==
    /\ ret.op = "Next"
    /\ ret.slot # -1
    /\ ret.id \in removed
    /\ ret.err = ErrNil
    /\ Len(ret.yield) >= 2
    /\ \E t \in Tombstones(view) :
          /\ ret.yield[Len(ret.yield) - 1] < t
          /\ t < ret.slot


\* the number of invocations of the subscription id among calls
RECURSIVE CallsTo(_, _)
CallsTo(calls, id) ==
    IF calls = <<>>
    THEN 0
    ELSE (IF calls[1].kind = "listener" /\ calls[1].id = id THEN 1 ELSE 0)
             + CallsTo(Tail(calls), id)

\* C22: an Update sends the signals that were waiting when it began to the
\* listeners that were subscribed when it began: it invokes no listener
\* subscribed since, invokes each listener at most once for each of those
\* signals, and leaves the signals raised meanwhile waiting
FrozenAtStartOfPass ==
    [][wret'.op = "Update"
          => /\ \A k \in DOMAIN wret'.calls :
                    wret'.calls[k].id <= world.subscriptions.lastSubscriptionID
             /\ \A id \in 1..world.subscriptions.lastSubscriptionID :
                    CallsTo(wret'.calls, id) <= sliceSize(world.subscriptions.signals)
             /\ Len(wret'.calls)
                    <= sliceSize(world.subscriptions.subscriptions)
                           * sliceSize(world.subscriptions.signals)]_vars


\* C31: an Update invokes at most as many listeners as there are signals
\* waiting when it begins times subscriptions, also when the listeners raise a
\* signal at every invocation: the signals they raise wait for the next Update
BoundedDispatchPass ==
    \A r \in {SubscriptionsUpdate(world)} :
        /\ Len(r.calls) <= sliceSize(world.subscriptions.signals)
                               * sliceSize(world.subscriptions.subscriptions)
        /\ r.err = ErrNil
              => sliceRefs(r.world.subscriptions.signals) = RaisedBy(r.calls)

\* an Update has sent two signals to two listeners that have raised a signal
\* at each of the four invocations, and the four signals raised are waiting
BoundedDispatchPassWitness ==
    /\ wret.op = "Update"
    /\ Len(wret.calls) = 4
    /\ \A k \in DOMAIN wret.calls : wret.calls[k].fn = "relayListener"
    /\ sliceSize(world.subscriptions.signals) = 4
    /\ sliceSize(world.subscriptions.subscriptions) = 2


\* C32: an Update while no signal is waiting returns nil, invokes no listener
\* and leaves the subscriptions, the incoming signals and toSend as they are
EmptyUpdateIsNoOp ==
    sliceSize(world.subscriptions.signals) = 0
        => \A r \in {SubscriptionsUpdate(world)} :
               /\ r.err = ErrNil
               /\ r.calls = <<>>
               /\ r.world.subscriptions = world.subscriptions
               /\ r.world = world

\* an Update has returned nil without a call while toSend holds the signals of
\* an Update that failed, and listeners are subscribed: no signal was waiting
EmptyUpdateIsNoOpWitness ==
    /\ wret.op = "Update"
    /\ wret.err = ErrNil
    /\ wret.calls = <<>>
    /\ sliceSize(world.subscriptions.signals) = 0
    /\ sliceSize(world.subscriptions.toSend) > 0
    /\ sliceSize(world.subscriptions.subscriptions) > 0


\* C33: the capacity is the length of the slot array before and after every
\* call and never goes down; Remove, Clear and Sort leave it as it is, and it
\* goes up only in an AddEntity that finds no slot that is a tombstone or was
\* never used
CapacityOnlyGrows ==
    [][/\ view.capacity = Len(view.items)
       /\ view'.capacity = Len(view'.items)
       /\ view'.capacity >= view.capacity
       /\ ret'.op \in {"Remove", "Clear", "Sort"}
              => view'.capacity = view.capacity
       /\ view'.capacity > view.capacity
              => /\ ret'.op = "AddEntity"
                 /\ FreeSlots(view) = {}]_vars

\* a store that has grown beyond the capacity it was created with holds a
\* tombstone and has just been sorted
CapacityOnlyGrowsWitness ==
    /\ ret.op = "Sort"
    /\ view.capacity > created
    /\ created > 0
    /\ Tombstones(view) # {}
    /\ removed # {}


\* C34: a Remove that returns ErrEntityNotFound leaves the store as it was: the
\* Size, every slot, the capacity, the id counter and the lookup
FailedRemoveChangesNothing ==
    [][(ret'.op = "Remove" /\ ret'.err = ErrEntityNotFound)
          => /\ Size(view') = Size(view)
             /\ view'.items = view.items
             /\ view'.capacity = view.capacity
             /\ view'.lastID = view.lastID
             /\ view' = view]_vars

\* a Remove of an id that an earlier Remove removed has returned
\* ErrEntityNotFound, and the store holds a live entity and a tombstone
FailedRemoveChangesNothingWitness ==
    /\ ret.op = "Remove"
    /\ ret.err = ErrEntityNotFound
    /\ ret.id \in removed
    /\ LiveSlots(view) # {}
    /\ Tombstones(view) # {}


\* the entities of the live slots of a store
LiveEntities(v) == {Item(v, i) : i \in LiveSlots(v)}

\* C35: Sort moves the slots and writes nothing else: the live entities (ids and
\* components), the numbers of live slots, of tombstones and of slots, the
\* Size, the capacity, the id counter are the same before and after Sort
SortOnlyPermutes ==
    [][ret'.op = "Sort"
          => /\ LiveEntities(view') = LiveEntities(view)
             /\ Cardinality(LiveSlots(view')) = Cardinality(LiveSlots(view))
             /\ Cardinality(Tombstones(view')) = Cardinality(Tombstones(view))
             /\ Len(view'.items) = Len(view.items)
             /\ Size(view') = Size(view)
             /\ view'.capacity = view.capacity
             /\ view'.lastID = view.lastID
             /\ view'.grow = view.grow]_vars

\* a Sort has moved a live entity away from the slot it was added at, in a
\* store of two live entities and a tombstone
SortOnlyPermutesWitness ==
    /\ ret.op = "Sort"
    /\ Cardinality(LiveSlots(view)) >= 2
    /\ Tombstones(view) # {}
    /\ \E i \in LiveSlots(view) : LookupGet(view, Item(view, i).id) # i


\* C36: an entity with no component, emptied through a handle or added with no
\* component, is a tombstone like one Remove leaves: no iterator stops at it,
\* Remove of its id returns ErrEntityNotFound, and the next AddEntity puts the
\* new entity in the slot of a tombstone, in place, in its slot when no tombstone
\* lies below it
EmptyEntityIsTombstone ==
    [][/\ \A i \in Tombstones(view) :
              /\ \A types \in SUBSET Types :
                     i \notin Range(Walk(view, Iterator(view, types)))
              /\ Remove(view, Item(view, i).id).err = ErrEntityNotFound
       /\ (ret'.op = "AddEntity" /\ ~ret'.panic /\ Tombstones(view) # {})
              => /\ ret'.slot \in Tombstones(view)
                 /\ \A i \in Tombstones(view) : ret'.slot <= i
                 /\ ret'.reused
                 /\ view'.capacity = view.capacity]_vars


\* the types of a sequence of signals that are among types, in order
RECURSIVE TypesAmong(_, _)
TypesAmong(signals, types) ==
    IF signals = <<>>
    THEN <<>>
    ELSE (IF Head(signals).type \in Range(types) THEN <<Head(signals).type>> ELSE <<>>)
             \o TypesAmong(Tail(signals), types)

\* the types of the signals the subscription id was invoked with, in order
RECURSIVE TypesSentTo(_, _)
TypesSentTo(calls, id) ==
    IF calls = <<>>
    THEN <<>>
    ELSE (IF Head(calls).kind = "listener" /\ Head(calls).id = id
          THEN <<Head(calls).signal.type>> ELSE <<>>)
             \o TypesSentTo(Tail(calls), id)

\* C37: the incoming queue holds the signals raised and not sent yet, in the
\* order they were raised. A World.Update in which a system fails invokes no
\* listener and leaves in the queue what was there, followed by what the
\* systems that ran have raised; a World.Update in which every system succeeds
\* sends every listener the signals of the queue that are of its types, followed
\* by those the systems have raised, in that order
FailedTickKeepsSignals ==
    /\ sliceRefs(world.subscriptions.signals) = hist.queued
    /\ \A r \in {WorldUpdate(world)} :
           IF r.err # ErrNil
           THEN /\ ListenerCalls(r.calls) = <<>>
                /\ sliceRefs(r.world.subscriptions.signals)
                       = hist.queued \o RaisedBy(SystemCalls(r.calls))
           ELSE /\ sliceSize(r.world.subscriptions.signals) = 0
                /\ \A sub \in Range(sliceRefs(world.subscriptions.subscriptions)) :
                       TypesSentTo(r.calls, sub.id)
                           = TypesAmong(hist.queued \o RaisedBy(SystemCalls(r.calls)),
                                        sub.signals)

\* after a World.Update in which a system failed, a World.Update has sent a
\* listener the signal raised from outside before the first, the signal a
\* system raised in the first, and the one it raised in the second, in order
FailedTickKeepsSignalsWitness ==
    /\ wret.op = "Update"
    /\ wret.err = ErrNil
    /\ world.x = 1
    /\ \E sub \in Range(sliceRefs(world.subscriptions.subscriptions)) :
           TypesSentTo(wret.calls, sub.id) = <<"signal2", "signal1", "signal1">>


\* the types a listener is subscribed to in the world w
Heard(w) ==
    UNION {Range(sub.signals) : sub \in Range(sliceRefs(w.subscriptions.subscriptions))}

\* C38: an Update that begins with signals waiting takes them all out of the
\* incoming queue, which holds afterwards only what the listeners invoked have
\* raised; it invokes listeners only with signals that were waiting, each
\* listener in the order of the queue; and it makes no call with a signal whose
\* type no listener is subscribed to: such a signal is gone from the queue and
\* no later Update, whoever has subscribed since, has it to send
UnheardSignalConsumed ==
    [][(wret'.op = "Update" /\ sliceSize(world.subscriptions.signals) > 0)
          => /\ sliceRefs(world'.subscriptions.signals) = RaisedBy(wret'.calls)
             /\ \A sub \in Range(sliceRefs(world.subscriptions.subscriptions)) :
                    IsPrefix(TypesSentTo(wret'.calls, sub.id),
                             TypesAmong(sliceRefs(world.subscriptions.signals),
                                        sub.signals))
             /\ \A s \in Range(sliceRefs(world.subscriptions.signals)) :
                    s.type \notin Heard(world)
                        => /\ \A k \in DOMAIN wret'.calls : wret'.calls[k].signal # s
                           /\ s \notin Range(sliceRefs(world'.subscriptions.signals))]_vars

\* an Update has returned nil after it began with a signal of a type no listener
\* was subscribed to and a signal a listener was invoked with; the first is
\* waiting nowhere
UnheardSignalConsumedWitness ==
    /\ wret.op = "Update"
    /\ wret.err = ErrNil
    /\ Len(wret.calls) = 1
    /\ Len(hist.sent) = 2
    /\ \E k \in DOMAIN hist.sent :
          /\ hist.sent[k].type \notin Heard(world)
          /\ hist.sent[k] \notin Range(sliceRefs(world.subscriptions.signals))
    /\ sliceSize(world.subscriptions.toSend) = 0


\* no entity stored in v carries id 0 unless it holds no component
ZeroOnlyOnTombstones(v) ==
    \A i \in Slots(v) : (~Item(v, i).nil /\ Item(v, i).id = 0) => i \in Tombstones(v)

sliceValidRefs(ss) ==
    LET RECURSIVE From(_)
        From(i) == IF i > Len(ss.items) THEN <<>>
                   ELSE (IF ss.items[i].valid THEN <<ss.items[i].ref>> ELSE <<>>)
                        \o From(i + 1)
    IN  From(1)

\* what source.Replace(dest) makes of dest: the valid items of the source, as
\* its Iterator yields them, and the Size of the source
ReplaceIsCopy(source, dest) ==
    \A r \in {sliceReplace(source, dest)} :
        /\ sliceRefs(r) = sliceRefs(source)
        /\ sliceValidRefs(r) = sliceValidRefs(source)
        /\ sliceSize(r) = sliceSize(source)
        /\ sliceSize(r) = Len(sliceValidRefs(r))

\* C40: source.Replace(dest), with dest another slice than the source, makes
\* dest hold the valid items of the source and nothing else, in the order the
\* Iterator of the source yields them, whatever dest held and whatever its
\* capacity was; dest.Size() is then the Size() of the source; the source is
\* left as it was
ReplaceCopiesSource ==
    [][/\ ReplaceIsCopy(world.subscriptions.signals, world.subscriptions.toSend)
       /\ ReplaceIsCopy(world.subscriptions.signals, NewSlice(0))
       /\ wret'.op = "Replace"
            => /\ world'.subscriptions.signals = world.subscriptions.signals
               /\ sliceRefs(world'.subscriptions.toSend)
                      = sliceRefs(world.subscriptions.signals)
               /\ sliceSize(world'.subscriptions.toSend)
                      = sliceSize(world.subscriptions.signals)]_vars

\* Replace has been called on a source that has grown and has a hole before
\* its one item, with a dest that held two items, none of them that item
ReplaceCopiesSourceWitness ==
    /\ wret.op = "Replace"
    /\ Len(hist.sent) = 2
    /\ sliceSize(world.subscriptions.signals) = 1
    /\ ~world.subscriptions.signals.items[1].valid
    /\ Len(world.subscriptions.signals.items) > 1
    /\ \A k \in DOMAIN hist.sent :
           hist.sent[k] \notin Range(sliceRefs(world.subscriptions.signals))
    /\ sliceRefs(world.subscriptions.toSend) = sliceRefs(world.subscriptions.signals)

============================================================================
